---- MODULE Spec2Model ----
(***************************************************************************)
(* A model of the API proxy pool of ocsjs-ai-backend                       *)
(* (services/api_proxy_pool.py and the admin routes of                     *)
(* routes/api_proxy_management.py that mutate it).                         *)
(*                                                                         *)
(* Conventions                                                             *)
(*  - An ApiProxy object is a record; the pool's list self.proxies is a    *)
(*    sequence of such records, so a proxy is identified by its position.  *)
(*  - time.time() is the variable now (whole seconds); it only advances in *)
(*    the Tick action, every handler runs at one instant.                  *)
(*  - Python floats are modelled as exact rationals: a score is a pair     *)
(*    <<numerator, denominator>> and scores are compared by cross          *)
(*    multiplication.                                                      *)
(*  - An attribute removed with delattr holds the value NoAttr.            *)
(*  - api_base is left out of the record: nothing modelled here reads it.  *)
(*  - The field err_run of a proxy record is a history variable, not an    *)
(*    attribute of the object: the number of record_error calls made in a  *)
(*    row (counted up to max_consecutive_errors) since anything else last  *)
(*    wrote consecutive_errors, is_active or disabled_at.                  *)
(***************************************************************************)
EXTENDS Integers, Sequences, FiniteSets, TLC

\* ------------------------------------------------------------------------
\* Program constants
\* ------------------------------------------------------------------------
max_consecutive_errors == 5
max_auto_recovery_attempts == 3
health_check_interval == 300
auto_recovery_interval == 1800
circuit_breaker_threshold == 5
circuit_breaker_timeout == 300
response_times_window == 100
timestamp_window == 500
recent_activity_window == 300
max_requests_per_5min == 100
default_max_retries == 3

\* ------------------------------------------------------------------------
\* Bounds of the model
\* ------------------------------------------------------------------------
\* time.time() when the pool is constructed
StartTime == 1000
\* caps on a run of Spec: recorded errors, recorded successes, admin operations
MaxErrors == 10
MaxSuccesses == 1
MaxAdminOps == 2
MaxRetriesArg == 3

ResponseTimes == {1, 40}
NoModel == "none"
NoAttr == -1
None == 0
ErrorTypes ==
  {"unknown", "timeout", "connection_error", "auth_error", "rate_limit",
   "server_error", "client_error"}

VARIABLES
  proxies,      \* ApiProxyPool.proxies
  now,          \* time.time()
  config_file,  \* config.json: missing, corrupt, or the parsed JSON object
  call,         \* the activation of call_api in progress (or the last one)
  last_select,  \* the last select_best_proxy evaluation: arguments, pool before, result
  roundtrip,    \* the last save_proxy_config + fresh ApiProxyPool observation
  env,          \* the scenario explored: which upstreams fail, the caps, the ticks used
  search,       \* the POST /api/questions/search request in progress (or the last one)
  threads,      \* the request threads inside add_proxy, record_success or record_error
  last_op       \* the last single operation observed on a proxy: the proxy before and after

vars == <<proxies, now, config_file, call, last_select, roundtrip, env, search, threads, last_op>>

\* ------------------------------------------------------------------------
\* Small helpers
\* ------------------------------------------------------------------------
Max(a, b) == IF a >= b THEN a ELSE b
Min(a, b) == IF a <= b THEN a ELSE b

RECURSIVE SumSeq(_)
SumSeq(s) == IF s = <<>> THEN 0 ELSE Head(s) + SumSeq(Tail(s))

InSeq(x, s) == \E i \in 1..Len(s) : s[i] = x

\* s[:n] of Python: the oldest entries kept
FirstN(s, n) == IF Len(s) > n THEN SubSeq(s, 1, n) ELSE s

\* s[-n:] of Python
LastN(s, n) == IF Len(s) > n THEN SubSeq(s, Len(s) - n + 1, Len(s)) ELSE s

\* dict.get(key, default)
Get(d, key, default) == IF key \in DOMAIN d THEN d[key] ELSE default

\* ------------------------------------------------------------------------
\* class ApiProxy
\* ------------------------------------------------------------------------
ApiProxy(name, api_keys, model, models, is_active, priority, available_models, t) ==
  [ name |-> name,
    api_keys |-> api_keys,
    model |-> model,
    models |-> models,
    available_models |-> available_models,
    is_active |-> is_active,
    priority |-> priority,
    current_key_index |-> 0,
    success_count |-> 0,
    error_count |-> 0,
    last_used |-> 0,
    response_times |-> <<>>,
    last_health_check |-> 0,
    consecutive_errors |-> 0,
    created_at |-> t,
    disabled_at |-> 0,
    auto_recovery_attempts |-> 0,
    last_success_time |-> 0,
    request_timestamps |-> <<>>,
    circuit_breaker_opened_at |-> 0,
    error_types |-> [e \in ErrorTypes |-> 0],
    err_run |-> 0 ]

get_current_key(p) ==
  IF p.api_keys = <<>> THEN ""
  ELSE p.api_keys[(p.current_key_index % Len(p.api_keys)) + 1]

\* rotate_key as it would be without the modulo
RotateKeyNoWrap(p) ==
  IF Len(p.api_keys) > 1
  THEN [p EXCEPT !.current_key_index = p.current_key_index + 1]
  ELSE p

rotate_key(p) ==
  IF Len(p.api_keys) > 1
  THEN [p EXCEPT !.current_key_index = (p.current_key_index + 1) % Len(p.api_keys)]
  ELSE p

\* record_success as it would be without the reset of consecutive_errors
RecordSuccessKeepsErrors(p, response_time, t) ==
  [p EXCEPT !.success_count = @ + 1,
            !.last_used = t,
            !.last_success_time = t,
            !.response_times = LastN(Append(@, response_time), response_times_window),
            !.request_timestamps = LastN(Append(@, t), timestamp_window)]

record_success(p, response_time, t) ==
  [p EXCEPT !.success_count = @ + 1,
            !.last_used = t,
            !.last_success_time = t,
            !.response_times = LastN(Append(@, response_time), response_times_window),
            !.consecutive_errors = 0,
            !.err_run = 0,
            !.request_timestamps = LastN(Append(@, t), timestamp_window)]

\* record_error as it would be with > in place of >= in the threshold test
RecordErrorOffByOne(p, error_type, t) ==
  LET q == [p EXCEPT !.error_count = @ + 1,
                     !.last_used = t,
                     !.consecutive_errors = @ + 1,
                     !.err_run = IF @ < max_consecutive_errors THEN @ + 1 ELSE @,
                     !.error_types[error_type] = @ + 1,
                     !.request_timestamps = LastN(Append(@, t), timestamp_window)]
  IN IF q.consecutive_errors > max_consecutive_errors
     THEN [q EXCEPT !.is_active = FALSE, !.disabled_at = t]
     ELSE q

record_error(p, error_type, t) ==
  LET q == [p EXCEPT !.error_count = @ + 1,
                     !.last_used = t,
                     !.consecutive_errors = @ + 1,
                     !.err_run = IF @ < max_consecutive_errors THEN @ + 1 ELSE @,
                     !.error_types[error_type] = @ + 1,
                     !.request_timestamps = LastN(Append(@, t), timestamp_window)]
  IN IF q.consecutive_errors >= max_consecutive_errors
     THEN [q EXCEPT !.is_active = FALSE, !.disabled_at = t]
     ELSE q

\* success_count / total as <<numerator, denominator>>; 1.0 when nothing was recorded
get_success_rate(p) ==
  LET total == p.success_count + p.error_count
  IN IF total = 0 THEN <<1, 1>> ELSE <<p.success_count, total>>

\* sum / len as <<numerator, denominator>>; 0.0 when the list is empty
get_avg_response_time(p) ==
  IF p.response_times = <<>> THEN <<0, 1>>
  ELSE <<SumSeq(p.response_times), Len(p.response_times)>>

needs_health_check(p, t) == t - p.last_health_check > health_check_interval

update_health_check(p, t) == [p EXCEPT !.last_health_check = t]

reset_errors(p) ==
  [p EXCEPT !.consecutive_errors = 0, !.is_active = TRUE, !.err_run = 0]

\* ------------------------------------------------------------------------
\* class ApiProxyPool: circuit breaker and scoring
\* ------------------------------------------------------------------------
\* get_active_proxies as it would be without the is_active test
GetActiveProxiesAll(ps) == [i \in 1..Len(ps) |-> i]

\* the positions of the active proxies, in list order
get_active_proxies(ps) == SelectSeq([i \in 1..Len(ps) |-> i], LAMBDA i : ps[i].is_active)

\* get_proxy_by_name: the position of the first proxy of that name, None when absent
get_proxy_by_name(ps, name) ==
  IF \E i \in 1..Len(ps) : ps[i].name = name
  THEN CHOOSE i \in 1..Len(ps) : ps[i].name = name /\ \A j \in 1..(i - 1) : ps[j].name # name
  ELSE None

\* _is_circuit_breaker_open as it would be with <= in place of < in the timeout test
IsCircuitBreakerOpenLate(p, t) ==
  IF p.consecutive_errors >= circuit_breaker_threshold
  THEN IF p.circuit_breaker_opened_at # NoAttr
       THEN t - p.circuit_breaker_opened_at <= circuit_breaker_timeout
       ELSE TRUE
  ELSE FALSE

\* _is_circuit_breaker_open(proxy) with circuit_breaker_enabled = True: the value returned
_is_circuit_breaker_open(p, t) ==
  IF p.consecutive_errors >= circuit_breaker_threshold
  THEN IF p.circuit_breaker_opened_at # NoAttr
       THEN t - p.circuit_breaker_opened_at < circuit_breaker_timeout
       ELSE TRUE
  ELSE FALSE

\* _is_circuit_breaker_open(proxy): the proxy as the evaluation leaves it
circuit_breaker_effect(p, t) ==
  IF p.consecutive_errors >= circuit_breaker_threshold
  THEN IF p.circuit_breaker_opened_at # NoAttr
       THEN IF t - p.circuit_breaker_opened_at < circuit_breaker_timeout
            THEN p
            ELSE [p EXCEPT !.consecutive_errors = 0, !.circuit_breaker_opened_at = NoAttr,
                           !.err_run = 0]
       ELSE [p EXCEPT !.circuit_breaker_opened_at = t]
  ELSE p

\* Every score below is scaled by ScoreDen(p) = 100 * T * L, where T is the
\* denominator of the success rate and L that of the average response time.
ScoreDen(p) == 100 * get_success_rate(p)[2] * get_avg_response_time(p)[2]

\* _calculate_health_score(proxy) * ScoreDen(proxy)
_calculate_health_score(p, t) ==
  LET sr == get_success_rate(p)
      avg == get_avg_response_time(p)
      T == sr[2]
      L == avg[2]
      error_penalty == T * L * Min(50, p.consecutive_errors * 10)
      time_penalty ==
        IF p.response_times # <<>> /\ avg[1] > 30 * L
        THEN T * Min(30 * L, avg[1] - 30 * L)
        ELSE 0
      activity_bonus ==
        IF t - p.last_success_time < recent_activity_window THEN 10 * T * L ELSE 0
      health == 100 * sr[1] * L - error_penalty - time_penalty + activity_bonus
  IN IF ~p.is_active THEN 0 ELSE Max(0, Min(100 * T * L, health))

\* the number of request_timestamps of the last 5 minutes
recent_requests(p, t) ==
  Cardinality({i \in 1..Len(p.request_timestamps) :
                 t - p.request_timestamps[i] < recent_activity_window})

\* _calculate_load_score(proxy) * 100
_calculate_load_score(p, t) ==
  100 - Min(100, (100 * recent_requests(p, t)) \div max_requests_per_5min)

\* enhanced_proxy_score(proxy) * ScoreDen(proxy)
enhanced_proxy_score(p, t) ==
  LET sr == get_success_rate(p)
      avg == get_avg_response_time(p)
      T == sr[2]
      L == avg[2]
      priority_score == Max(0, 100 - p.priority)
      response_time_score ==
        IF p.response_times # <<>> /\ avg[1] > 0 THEN Max(0, 100 * L - 10 * avg[1]) ELSE 0
      available_models_bonus == IF p.available_models # <<>> THEN 20 ELSE 0
      error_penalty == Min(50, p.consecutive_errors * 10)
      total == 25 * T * L * priority_score
               + 2500 * sr[1] * L
               + 15 * T * response_time_score
               + 20 * _calculate_health_score(p, t)
               + 10 * T * L * _calculate_load_score(p, t)
               + 5 * T * L * available_models_bonus
               - 100 * T * L * error_penalty
  IN Max(0, total)

\* score(a) >= score(b), score(a) = score(b)
ScoreGeq(a, b, t) ==
  enhanced_proxy_score(a, t) * ScoreDen(b) >= enhanced_proxy_score(b, t) * ScoreDen(a)
ScoreEq(a, b, t) ==
  enhanced_proxy_score(a, t) * ScoreDen(b) = enhanced_proxy_score(b, t) * ScoreDen(a)

\* ------------------------------------------------------------------------
\* ApiProxyPool.select_best_proxy
\* ------------------------------------------------------------------------
\* the candidate list as it would be without the model tiers
CandidateProxiesNoTiers(ps, model) == get_active_proxies(ps)

\* the candidate list before the circuit-breaker filter (positions, in pool order)
candidate_proxies(ps, model) ==
  LET active_proxies == get_active_proxies(ps)
      available_candidate_proxies ==
        SelectSeq(active_proxies, LAMBDA i : InSeq(model, ps[i].available_models))
      declared == SelectSeq(active_proxies, LAMBDA i : InSeq(model, ps[i].models))
  IN IF model # NoModel
     THEN IF available_candidate_proxies # <<>> THEN available_candidate_proxies
          ELSE IF declared # <<>> THEN declared
          ELSE active_proxies
     ELSE active_proxies

\* the pool after _is_circuit_breaker_open has been evaluated on every candidate
after_circuit_filter(ps, cands, t) ==
  [i \in 1..Len(ps) |-> IF InSeq(i, cands) THEN circuit_breaker_effect(ps[i], t) ELSE ps[i]]

\* [p for p in candidate_proxies if not self._is_circuit_breaker_open(p)]
circuit_filter(ps, cands, t) ==
  SelectSeq(cands, LAMBDA i : ~_is_circuit_breaker_open(ps[i], t))

\* the insertion as it would be for a sort that is not stable
RECURSIVE InsertUnstable(_, _, _, _)
InsertUnstable(x, s, ps, t) ==
  IF s = <<>> THEN <<x>>
  ELSE IF ScoreGeq(ps[Head(s)], ps[x], t) /\ ~ScoreEq(ps[Head(s)], ps[x], t)
       THEN <<Head(s)>> \o InsertUnstable(x, Tail(s), ps, t)
       ELSE <<x>> \o s

\* sorted(..., key=enhanced_proxy_score, reverse=True): a stable descending sort,
\* built by inserting each element behind the elements that score at least as high
RECURSIVE insert_sorted(_, _, _, _)
insert_sorted(x, s, ps, t) ==
  IF s = <<>> THEN <<x>>
  ELSE IF ScoreGeq(ps[Head(s)], ps[x], t)
       THEN <<Head(s)>> \o insert_sorted(x, Tail(s), ps, t)
       ELSE <<x>> \o s

RECURSIVE sorted_proxies(_, _, _)
sorted_proxies(cands, ps, t) ==
  IF cands = <<>> THEN <<>>
  ELSE insert_sorted(cands[Len(cands)], sorted_proxies(SubSeq(cands, 1, Len(cands) - 1), ps, t), ps, t)

\* select_best_proxy(model): <<the position returned (None = 0), the pool afterwards>>
select_best_proxy(ps, model, t) ==
  LET cands == candidate_proxies(ps, model)
      kept == circuit_filter(ps, cands, t)
      after == after_circuit_filter(ps, cands, t)
  IN IF get_active_proxies(ps) = <<>> THEN <<None, ps>>
     ELSE IF kept = <<>> THEN <<None, after>>
     ELSE <<Head(sorted_proxies(kept, after, t)), after>>

\* ------------------------------------------------------------------------
\* config.json: load_config and save_proxy_config
\* ------------------------------------------------------------------------
RequiredKeys == {"name", "api_keys", "model", "models"}

\* ApiProxy(**api_config) of load_config, with the defaults of api_config.get
proxy_of_entry(e, t) ==
  ApiProxy(e.name, e.api_keys, e.model, e.models,
           Get(e, "is_active", TRUE), Get(e, "priority", 1),
           Get(e, "available_models", <<>>), t)

\* config.json is a record: kind "missing" (no such file), "corrupt" (not JSON) or
\* "json", with the parsed object in the field json
\* load_config on a pool whose list is ps: the list afterwards
load_config(file, ps, t) ==
  IF file.kind = "missing" THEN ps
  ELSE IF file.kind = "corrupt" THEN <<>>
  ELSE LET apis == Get(file.json, "third_party_apis", <<>>)
       IN IF \E i \in 1..Len(apis) : ~(RequiredKeys \subseteq DOMAIN apis[i])
          THEN <<>>
          ELSE [i \in 1..Len(apis) |-> proxy_of_entry(apis[i], t)]

\* ApiProxyPool(config_file): a fresh pool's list
fresh_pool(file, t) == load_config(file, <<>>, t)

\* the dict as it would be without the is_active key
EntryWithoutActive(p) ==
  [ name |-> p.name, api_keys |-> p.api_keys, model |-> p.model, models |-> p.models,
    available_models |-> p.available_models, priority |-> p.priority ]

\* the dict save_proxy_config writes for one proxy
entry_of_proxy(p) ==
  [ name |-> p.name, api_keys |-> p.api_keys, model |-> p.model, models |-> p.models,
    available_models |-> p.available_models, is_active |-> p.is_active,
    priority |-> p.priority ]

\* save_proxy_config(pool): <<the value returned, the file afterwards>>
save_proxy_config(file, ps) ==
  IF file.kind # "json" THEN <<FALSE, file>>
  ELSE <<TRUE, [file EXCEPT !.json =
                  [k \in (DOMAIN file.json) \cup {"third_party_apis"} |->
                     IF k = "third_party_apis"
                     THEN [i \in 1..Len(ps) |-> entry_of_proxy(ps[i])]
                     ELSE file.json[k]]]>>

\* ------------------------------------------------------------------------
\* Inputs: the configuration files the pool is constructed from
\* ------------------------------------------------------------------------
\* add_proxy(name, ...) with the fields of the dict e: <<the value returned, the list
\* afterwards>>
add_proxy(ps, e, t) ==
  IF get_proxy_by_name(ps, e.name) # None THEN <<FALSE, ps>>
  ELSE <<TRUE, Append(ps, ApiProxy(e.name, e.api_keys, e.model, e.models,
                                   Get(e, "is_active", TRUE), Get(e, "priority", 1), <<>>, t))>>

\* remove_proxy(name): the list without the first proxy of that name
remove_proxy(ps, name) ==
  LET i == get_proxy_by_name(ps, name)
  IN IF i = None THEN ps
     ELSE [k \in 1..(Len(ps) - 1) |-> IF k < i THEN ps[k] ELSE ps[k + 1]]

\* list.remove(x): the list without the first occurrence of x
RemoveFirst(s, x) ==
  LET i == CHOOSE k \in 1..Len(s) : s[k] = x /\ \A j \in 1..(k - 1) : s[j] # x
  IN [k \in 1..(Len(s) - 1) |-> IF k < i THEN s[k] ELSE s[k + 1]]

\* update_api_proxy (PUT /<proxy_name>): the proxy after the assignments made for the
\* body data; is_active and priority are optional keys
put_proxy(p, data) ==
  LET q == [p EXCEPT !.api_keys = data.api_keys, !.model = data.model, !.models = data.models]
      r == IF "is_active" \in DOMAIN data
           THEN [q EXCEPT !.is_active = data.is_active, !.err_run = 0] ELSE q
  IN IF "priority" \in DOMAIN data /\ data.priority >= 1
     THEN [r EXCEPT !.priority = data.priority] ELSE r

\* import_api_proxy_config, one entry of the uploaded file: the list afterwards
import_entry(ps, e, t) ==
  IF ~(RequiredKeys \subseteq DOMAIN e) THEN ps
  ELSE LET i == get_proxy_by_name(ps, e.name)
       IN IF i # None
          THEN LET q == [ps[i] EXCEPT !.api_keys = e.api_keys, !.model = e.model,
                                      !.models = e.models]
                   r == IF "is_active" \in DOMAIN e
                        THEN [q EXCEPT !.is_active = e.is_active, !.err_run = 0] ELSE q
               IN [ps EXCEPT ![i] = IF "priority" \in DOMAIN e
                                    THEN [r EXCEPT !.priority = e.priority] ELSE r]
          ELSE add_proxy(ps, e, t)[2]

RECURSIVE import_entries(_, _, _)
import_entries(ps, es, t) ==
  IF es = <<>> THEN ps ELSE import_entries(import_entry(ps, Head(es), t), Tail(es), t)

Entry(name, keys, models, available, active, priority) ==
  [ name |-> name, api_keys |-> keys, model |-> models[1], models |-> models,
    available_models |-> available, is_active |-> active, priority |-> priority ]

\* A has m1 confirmed available, B only declares m2; with these priorities the two
\* start with the same score
CfgTiered ==
  [ kind |-> "json", json |-> [ third_party_apis |->
      << Entry("A", <<"k1", "k2", "k3">>, <<"m1">>, <<"m1">>, TRUE, 5),
         Entry("B", <<"k1">>, <<"m2">>, <<>>, TRUE, 1) >> ] ]

\* A and B differ in name and priority only
CfgTwin ==
  [ kind |-> "json", json |-> [ third_party_apis |->
      << Entry("A", <<"k1">>, <<"m1">>, <<"m1">>, TRUE, 2),
         Entry("B", <<"k1">>, <<"m1">>, <<"m1">>, TRUE, 1) >> ] ]

ModelArgs == {NoModel, "m1", "m2"}

\* request bodies of the admin routes
KeyLists == {<<>>, <<"k1">>, <<"k1", "k2">>}
Keys == {"k1", "k2", "k4"}
NewProxies ==
  {[name |-> "C", api_keys |-> <<"k1">>, model |-> "m1", models |-> <<"m1">>],
   [name |-> "A", api_keys |-> <<"k1">>, model |-> "m1", models |-> <<"m1">>,
    is_active |-> FALSE, priority |-> 2]}
ImportFiles ==
  {<<[name |-> "A", api_keys |-> <<"k1">>, model |-> "m1", models |-> <<"m1">>],
     [name |-> "C", api_keys |-> <<"k1", "k2">>, model |-> "m2", models |-> <<"m2">>,
      is_active |-> FALSE]>>,
   <<[name |-> "B", api_keys |-> <<"k1", "k2">>, model |-> "m2", models |-> <<"m2">>,
      priority |-> 3],
     [name |-> "D"]>>}
Priorities == {1, 100, 101}

\* ------------------------------------------------------------------------
\* State shared by the specifications
\* ------------------------------------------------------------------------
NoSelect == [called |-> FALSE]
NoCall == [pc |-> "idle"]
NoRoundtrip == [done |-> FALSE]
NoSearch == [pc |-> "idle"]
NoThreads == <<>>
NoOp == [op |-> "none"]
\* a scenario: the upstreams that answer with errors and the statuses they use, the
\* models requested, and the caps on what a run records (errors, successes, clock
\* advances, admin operations)
Scenario(flaky, statuses, raises, models, max_errors, max_successes, steps, max_ticks, max_ops, max_other) ==
  [errors |-> 0, successes |-> 0, ticks |-> 0, ops |-> 0, steps |-> steps, max_other |-> max_other,
   flaky |-> flaky, statuses |-> statuses, raises |-> raises, models |-> models,
   max_errors |-> max_errors, max_successes |-> max_successes,
   max_ticks |-> max_ticks, max_ops |-> max_ops]

\* successes, clock steps and admin operations of the scenario so far
Others == env.successes + env.ticks + env.ops

InitFrom(files, scenario) ==
  /\ config_file \in files
  /\ now = StartTime
  /\ proxies = fresh_pool(config_file, now)
  /\ call = NoCall
  /\ last_select = NoSelect
  /\ roundtrip = NoRoundtrip
  /\ search = NoSearch
  /\ threads = NoThreads
  /\ last_op = NoOp
  /\ env = scenario

\* ------------------------------------------------------------------------
\* ApiProxyPool._make_api_request and call_api
\* ------------------------------------------------------------------------
\* What the upstream does with one request: it answers with a status (and a latency),
\* or requests.post raises
Response(status, rt) == [kind |-> "response", status |-> status, rt |-> rt]
Raises(exc) == [kind |-> "raise", exc |-> exc]
OkOutcomes == {Response(200, rt) : rt \in ResponseTimes}
HttpErrorOutcomes == {Response(st, 1) : st \in {401, 403, 500}}
RaiseOutcomes == {Raises(exc) : exc \in {"Timeout", "ConnectionError"}}
Outcomes == OkOutcomes \cup HttpErrorOutcomes \cup RaiseOutcomes

\* the exception an attempt ends with ("" when it returns)
error_of(o) ==
  IF o.kind = "raise" THEN o.exc
  ELSE IF o.status = 200 THEN ""
  ELSE IF o.status = 401 THEN "HTTP 401" ELSE IF o.status = 403 THEN "HTTP 403"
  ELSE IF o.status = 429 THEN "HTTP 429" ELSE "HTTP 500"

\* _make_api_request(proxy, ...): the proxy afterwards; it returns iff error_of(o) = ""
_make_api_request(p, o, t) ==
  IF o.kind = "raise" THEN p
  ELSE IF o.status = 200 THEN record_success(p, o.rt, t)
  ELSE LET q == record_error(p, "unknown", t)
       IN IF o.status \in {401, 403} THEN rotate_key(q) ELSE q

\* call_api(proxy, model, messages, max_retries) at entry; errors_before,
\* consecutive_before and key_index_before record the proxy's counters and key index
\* as the last attempt found them
call_api_enter(i, p, max_retries) ==
  IF ~p.is_active
  THEN [pc |-> "raised", proxy |-> i, retries |-> 0, max_retries |-> max_retries,
        log |-> <<>>, last_error |-> "inactive", raised |-> "inactive",
        errors_before |-> p.error_count, consecutive_before |-> p.consecutive_errors,
        key_index_before |-> p.current_key_index]
  ELSE IF 0 < max_retries
  THEN [pc |-> "calling", proxy |-> i, retries |-> 0, max_retries |-> max_retries,
        log |-> <<>>, last_error |-> "", raised |-> "",
        errors_before |-> p.error_count, consecutive_before |-> p.consecutive_errors,
        key_index_before |-> p.current_key_index]
  ELSE [pc |-> "raised", proxy |-> i, retries |-> 0, max_retries |-> max_retries,
        log |-> <<>>, last_error |-> "", raised |-> "retries exhausted",
        errors_before |-> p.error_count, consecutive_before |-> p.consecutive_errors,
        key_index_before |-> p.current_key_index]

\* the retry loop as it would be if a success did not return
CallApiStepNoStop(c, o) ==
  LET err == error_of(o)
      n == c.retries + 1
  IN IF n < c.max_retries
     THEN [c EXCEPT !.retries = n, !.last_error = err, !.log = Append(@, o)]
     ELSE [c EXCEPT !.pc = IF err = "" THEN "returned" ELSE "raised", !.retries = n,
                    !.last_error = err, !.log = Append(@, o), !.raised = err]

\* one pass of the retry loop of call_api, given what the attempt did
call_api_step(c, o) ==
  LET err == error_of(o)
      n == c.retries + 1
  IN IF err = ""
     THEN [c EXCEPT !.pc = "returned", !.log = Append(@, o)]
     ELSE IF n < c.max_retries
     THEN [c EXCEPT !.retries = n, !.last_error = err, !.log = Append(@, o)]
     ELSE [c EXCEPT !.pc = "raised", !.retries = n, !.last_error = err,
                    !.log = Append(@, o), !.raised = err]

\* _classify_error(error) for the exception an attempt ends with; an upstream that
\* sends no error message of its own, so that the text is "HTTP错误: <status>"
_classify_error(o) ==
  IF o.kind = "raise"
  THEN IF o.exc = "Timeout" THEN "timeout"
       ELSE IF o.exc = "ConnectionError" THEN "connection_error"
       ELSE "unknown"
  ELSE IF o.status \in {401, 403} THEN "auth_error"
  ELSE IF o.status = 429 THEN "rate_limit"
  ELSE IF o.status \in {500, 502, 503, 504} THEN "server_error"
  ELSE IF o.status = 400 THEN "client_error"
  ELSE "unknown"

\* the condition under which _perform_health_check probes a disabled proxy
\* (auto_recovery_enabled = True)
recovery_due(p, t) ==
  /\ ~p.is_active
  /\ p.disabled_at > 0
  /\ t - p.disabled_at > auto_recovery_interval
  /\ p.auto_recovery_attempts < max_auto_recovery_attempts

\* _perform_health_check(proxy): o1 is what the upstream does with the recovery
\* probe, o2 with the regular check
_perform_health_check(p, o1, o2, t) ==
  LET p0 == update_health_check(p, t)
      p1 == IF recovery_due(p0, t)
            THEN LET r == _make_api_request([p0 EXCEPT !.auto_recovery_attempts = @ + 1], o1, t)
                 IN IF error_of(o1) = ""
                    THEN [r EXCEPT !.is_active = TRUE, !.consecutive_errors = 0,
                                   !.circuit_breaker_opened_at = 0, !.err_run = 0]
                    ELSE record_error(r, _classify_error(o1), t)
            ELSE p0
  IN IF p1.is_active
     THEN LET r == _make_api_request(p1, o2, t)
          IN IF error_of(o2) = ""
             THEN IF r.consecutive_errors > 0
                  THEN [r EXCEPT !.consecutive_errors = Max(0, @ - 1), !.err_run = 0]
                  ELSE r
             ELSE record_error(r, _classify_error(o2), t)
     ELSE p1

InFlight == call.pc = "calling"

\* ------------------------------------------------------------------------
\* Actions
\* ------------------------------------------------------------------------
\* time passes
Tick ==
  /\ ~InFlight
  /\ env.ticks < env.max_ticks
  /\ Others < env.max_other
  /\ \E d \in env.steps : now' = now + d
  /\ env' = [env EXCEPT !.ticks = @ + 1]
  /\ last_select' = NoSelect
  /\ call' = NoCall
  /\ UNCHANGED <<proxies, config_file, roundtrip, search, threads, last_op>>

\* what an attempt may do in the scenario
Affordable(o) ==
  /\ o \in OkOutcomes => (env.successes < env.max_successes /\ Others < env.max_other)
  /\ o \in HttpErrorOutcomes =>
       /\ env.errors < env.max_errors
       /\ proxies[call.proxy].name \in env.flaky
       /\ o.status \in env.statuses
  /\ o \in RaiseOutcomes => o.exc \in env.raises

\* the scenario's counters after an attempt
Spent(o) ==
  IF o \in OkOutcomes THEN [env EXCEPT !.successes = @ + 1]
  ELSE IF o \in HttpErrorOutcomes THEN [env EXCEPT !.errors = @ + 1]
  ELSE env

\* ModelService.generate_response, first half: select_best_proxy(model), then the
\* entry of call_api on the proxy selected
SelectBestProxy ==
  /\ ~InFlight
  /\ \E model \in env.models :
       LET r == select_best_proxy(proxies, model, now)
       IN /\ proxies' = r[2]
          /\ last_select' = [called |-> TRUE, model |-> model, before |-> proxies,
                             result |-> r[1]]
          /\ call' = IF r[1] = None THEN NoCall
                     ELSE call_api_enter(r[1], r[2][r[1]], default_max_retries)
  /\ UNCHANGED <<now, config_file, roundtrip, env, search, threads, last_op>>

\* one attempt of the retry loop of call_api: _make_api_request, then the bookkeeping
CallApiAttempt ==
  /\ InFlight
  /\ \E o \in Outcomes :
       /\ Affordable(o)
       /\ proxies' = [proxies EXCEPT ![call.proxy] = _make_api_request(@, o, now)]
       /\ call' = [call_api_step(call, o) EXCEPT
                    !.errors_before = proxies[call.proxy].error_count,
                    !.consecutive_before = proxies[call.proxy].consecutive_errors,
                    !.key_index_before = proxies[call.proxy].current_key_index]
       /\ env' = Spent(o)
  /\ last_select' = NoSelect
  /\ UNCHANGED <<now, config_file, roundtrip, search, threads, last_op>>

\* _health_check_worker, one proxy of its loop: _perform_health_check when due;
\* last_op keeps the time of the last auto-recovery probe
HealthCheckWorker ==
  /\ ~InFlight
  /\ \E i \in 1..Len(proxies), o1 \in Outcomes, o2 \in Outcomes :
       LET q == _perform_health_check(proxies[i], o1, o2, now)
           errors == q.error_count - proxies[i].error_count
           successes == q.success_count - proxies[i].success_count
       IN /\ needs_health_check(proxies[i], now)
          /\ \A o \in {o1, o2} :
               /\ o \in HttpErrorOutcomes => o.status \in env.statuses
               /\ o \in RaiseOutcomes => o.exc \in env.raises
               /\ o \in OkOutcomes => o.rt \in Get(env, "latencies", ResponseTimes)
          /\ errors > 0 => proxies[i].name \in env.flaky
          /\ env.errors + errors <= env.max_errors
          /\ env.successes + successes <= env.max_successes
          /\ Others + successes <= env.max_other
          /\ proxies' = [proxies EXCEPT ![i] = q]
          /\ env' = [env EXCEPT !.errors = @ + errors, !.successes = @ + successes]
          /\ last_op' = IF recovery_due(update_health_check(proxies[i], now), now)
                        THEN [op |-> "recovery_probe", proxy |-> i, at |-> now]
                        ELSE last_op
  /\ last_select' = NoSelect
  /\ call' = NoCall
  /\ UNCHANGED <<now, config_file, roundtrip, search, threads>>

\* PUT /<proxy_name>/status: update_proxy_status, then save_proxy_config
UpdateApiProxyStatus ==
  /\ ~InFlight
  /\ env.ops < env.max_ops
  /\ Others < env.max_other
  /\ \E i \in 1..Len(proxies), active \in BOOLEAN :
       LET j == get_proxy_by_name(proxies, proxies[i].name)
           ps2 == [proxies EXCEPT ![j] = [@ EXCEPT !.is_active = active, !.err_run = 0]]
       IN /\ proxies' = ps2
          /\ config_file' = save_proxy_config(config_file, ps2)[2]
  /\ last_select' = NoSelect
  /\ call' = NoCall
  /\ env' = [env EXCEPT !.ops = @ + 1]
  /\ UNCHANGED <<now, roundtrip, search, threads, last_op>>

\* PUT /<proxy_name>/priority: priority >= 1 is stored, then save_proxy_config
UpdateApiProxyPriority ==
  /\ ~InFlight
  /\ env.ops < env.max_ops
  /\ Others < env.max_other
  /\ \E i \in 1..Len(proxies), priority \in Priorities :
       LET ps2 == [proxies EXCEPT ![get_proxy_by_name(proxies, proxies[i].name)].priority = priority]
       IN /\ priority >= 1
          /\ proxies' = ps2
          /\ config_file' = save_proxy_config(config_file, ps2)[2]
  /\ last_select' = NoSelect
  /\ call' = NoCall
  /\ env' = [env EXCEPT !.ops = @ + 1]
  /\ UNCHANGED <<now, roundtrip, search, threads, last_op>>

\* POST /<proxy_name>/reset: reset_proxy_errors
ResetApiProxyErrors ==
  /\ ~InFlight
  /\ env.ops < env.max_ops
  /\ Others < env.max_other
  /\ \E i \in 1..Len(proxies) :
       LET j == get_proxy_by_name(proxies, proxies[i].name)
       IN proxies' = [proxies EXCEPT ![j] = [reset_errors(@) EXCEPT !.auto_recovery_attempts = 0]]
  /\ last_select' = NoSelect
  /\ call' = NoCall
  /\ env' = [env EXCEPT !.ops = @ + 1]
  /\ UNCHANGED <<now, config_file, roundtrip, search, threads, last_op>>

\* a direct call of call_api(proxy, model, messages, max_retries)
CallApi ==
  /\ ~InFlight
  /\ \E i \in 1..Len(proxies), max_retries \in 0..MaxRetriesArg :
       call' = call_api_enter(i, proxies[i], max_retries)
  /\ last_select' = NoSelect
  /\ UNCHANGED <<proxies, now, config_file, roundtrip, env, search, threads, last_op>>

\* what every admin route below does besides its own work
AdminOp ==
  /\ ~InFlight
  /\ env.ops < env.max_ops
  /\ Others < env.max_other
  /\ env' = [env EXCEPT !.ops = @ + 1]
  /\ last_select' = NoSelect
  /\ call' = NoCall
  /\ UNCHANGED <<now, roundtrip, search, threads, last_op>>

Saved(ps2) ==
  /\ proxies' = ps2
  /\ config_file' = save_proxy_config(config_file, ps2)[2]

\* POST /add: the required fields are present and non-empty, add_proxy, then
\* save_proxy_config when it succeeded
AddApiProxy ==
  /\ AdminOp
  /\ \E data \in NewProxies :
       LET r == add_proxy(proxies, data, now)
       IN IF r[1] THEN Saved(r[2]) ELSE UNCHANGED <<proxies, config_file>>

\* DELETE /<proxy_name>: remove_proxy, then save_proxy_config
DeleteApiProxy ==
  /\ AdminOp
  /\ \E i \in 1..Len(proxies) : Saved(remove_proxy(proxies, proxies[i].name))

\* PUT /<proxy_name>: a priority below 1 answers 400 after the other fields were
\* assigned and before the configuration is saved
UpdateApiProxy ==
  /\ AdminOp
  /\ \E i \in 1..Len(proxies), keys \in KeyLists, extra \in {"", "is_active", "priority"} :
       \E active \in IF extra = "is_active" THEN BOOLEAN ELSE {TRUE} :
       \E priority \in IF extra = "priority" THEN {0, 1} ELSE {1} :
         LET j == get_proxy_by_name(proxies, proxies[i].name)
             base == [api_keys |-> keys, model |-> proxies[j].model, models |-> proxies[j].models]
             data == IF extra = "is_active" THEN base @@ [is_active |-> active]
                     ELSE IF extra = "priority" THEN base @@ [priority |-> priority]
                     ELSE base
             ps2 == [proxies EXCEPT ![j] = put_proxy(@, data)]
         IN IF "priority" \in DOMAIN data /\ data.priority < 1
            THEN proxies' = ps2 /\ UNCHANGED config_file
            ELSE Saved(ps2)

\* PUT /<proxy_name>/keys: a non-empty list replaces api_keys, the index restarts
UpdateProxyKeys ==
  /\ AdminOp
  /\ \E i \in 1..Len(proxies), keys \in KeyLists :
       LET j == get_proxy_by_name(proxies, proxies[i].name)
       IN IF Len(keys) = 0 THEN UNCHANGED <<proxies, config_file>>
          ELSE Saved([proxies EXCEPT ![j] = [@ EXCEPT !.api_keys = keys,
                                                       !.current_key_index = 0]])

\* POST /<proxy_name>/keys/add: a key not yet in the list is appended
AddProxyKey ==
  /\ AdminOp
  /\ \E i \in 1..Len(proxies), key \in Keys :
       LET j == get_proxy_by_name(proxies, proxies[i].name)
       IN IF InSeq(key, proxies[j].api_keys) THEN UNCHANGED <<proxies, config_file>>
          ELSE Saved([proxies EXCEPT ![j].api_keys = Append(@, key)])

\* POST /<proxy_name>/keys/remove: refused for the last key and for an unknown key
RemoveProxyKey ==
  /\ AdminOp
  /\ \E i \in 1..Len(proxies), key \in Keys :
       LET j == get_proxy_by_name(proxies, proxies[i].name)
           keys == RemoveFirst(proxies[j].api_keys, key)
       IN IF Len(proxies[j].api_keys) <= 1 \/ ~InSeq(key, proxies[j].api_keys)
          THEN UNCHANGED <<proxies, config_file>>
          ELSE Saved([proxies EXCEPT ![j] =
                        [@ EXCEPT !.api_keys = keys,
                                  !.current_key_index = IF @ >= Len(keys) THEN 0 ELSE @]])

\* POST /import: every entry of the uploaded file, then save_proxy_config
ImportApiProxyConfig ==
  /\ AdminOp
  /\ \E file \in ImportFiles : Saved(import_entries(proxies, file, now))

\* POST /reload: reload_proxy_pool replaces the pool by a fresh ApiProxyPool
ReloadApiProxyConfig ==
  /\ AdminOp
  /\ proxies' = fresh_pool(config_file, now)
  /\ UNCHANGED config_file

\* save_proxy_config(pool), then a fresh ApiProxyPool built from the file; the pool
\* itself is left as it is
SaveAndLoadFresh ==
  /\ ~InFlight
  /\ LET r == save_proxy_config(config_file, proxies)
     IN /\ config_file' = r[2]
        /\ roundtrip' = [done |-> TRUE, existed |-> config_file.kind # "missing",
                         saved |-> r[1], rewritten |-> r[2] # config_file,
                         pool |-> proxies, fresh |-> fresh_pool(r[2], now)]
  /\ last_select' = NoSelect
  /\ call' = NoCall
  /\ UNCHANGED <<proxies, now, env, search, threads, last_op>>

Init ==
  InitFrom({CfgTiered},
           Scenario({"A"}, {500}, {"Timeout"}, ModelArgs, MaxErrors, MaxSuccesses, {}, 0, MaxAdminOps,
                    MaxSuccesses + MaxAdminOps))

Next ==
  \/ CallApiAttempt
  \/ UpdateApiProxyStatus
  \/ SelectBestProxy

Spec == Init /\ [][Next]_vars

\* Scoring scenario: two proxies that differ in priority only, both upstreams fail,
\* the admin changes priorities
MaxScoreErrors == 8
MaxScoreOps == 2

InitScore ==
  InitFrom({CfgTwin},
           Scenario({"A", "B"}, {500}, {"Timeout"}, {NoModel}, MaxScoreErrors, 0, {}, 0, MaxScoreOps,
                    MaxScoreOps))

NextScore ==
  \/ CallApiAttempt
  \/ UpdateApiProxyPriority
  \/ SelectBestProxy

SpecScore == InitScore /\ [][NextScore]_vars

\* Health scenario: the health-check worker probes the proxies as time passes, the
\* upstream of A fails in several ways, the admin resets or switches proxies
MaxHealthErrors == 6
MaxHealthSteps == 4

InitHealth ==
  InitFrom({CfgTiered},
           Scenario({"A"}, {401, 500}, {"Timeout"}, {NoModel}, MaxHealthErrors, MaxHealthSteps,
                    {auto_recovery_interval + 1}, MaxHealthSteps, MaxHealthSteps, MaxHealthSteps))

NextHealth ==
  \/ HealthCheckWorker
  \/ Tick
  \/ ResetApiProxyErrors
  \/ UpdateApiProxyStatus

SpecHealth == InitHealth /\ [][NextHealth]_vars

\* Retry scenario: call_api is entered on any proxy with any max_retries, the
\* upstreams answer 200, 401 or 500, or the HTTP client raises
MaxCallErrors == 4
MaxCallSteps == 1

InitCall ==
  InitFrom({CfgTiered},
           Scenario({"A"}, {401, 500}, {"Timeout", "ConnectionError"}, {NoModel},
                    MaxCallErrors, MaxCallSteps, {}, 0, MaxCallSteps, MaxCallSteps))

NextCall ==
  \/ CallApi
  \/ CallApiAttempt
  \/ ResetApiProxyErrors

SpecCall == InitCall /\ [][NextCall]_vars

\* Key scenario: 401 answers rotate the key of A while the admin edits key lists
MaxKeyErrors == 3
MaxKeyOps == 2

InitKeys ==
  InitFrom({CfgTiered},
           Scenario({"A"}, {401}, {}, {"m1"}, MaxKeyErrors, 0, {}, 0, MaxKeyOps, MaxKeyOps))

NextKeys ==
  \/ SelectBestProxy
  \/ CallApiAttempt
  \/ UpdateApiProxy
  \/ UpdateProxyKeys
  \/ AddProxyKey
  \/ RemoveProxyKey
  \/ ImportApiProxyConfig

SpecKeys == InitKeys /\ [][NextKeys]_vars

\* Persistence scenario: the pool starts from a config.json that is missing, not
\* JSON, or a JSON object; the admin edits the pool; the pool is saved and a fresh
\* one is built from the file
MaxPersistOps == 3
ConfigFiles == {[kind |-> "missing"], [kind |-> "corrupt"], CfgTiered}

InitPersist ==
  InitFrom(ConfigFiles,
           Scenario({}, {}, {}, {NoModel}, 0, 0, {}, 0, MaxPersistOps, MaxPersistOps))

NextPersist ==
  \/ AddApiProxy
  \/ DeleteApiProxy
  \/ UpdateApiProxyStatus
  \/ UpdateApiProxyPriority
  \/ ResetApiProxyErrors
  \/ ReloadApiProxyConfig
  \/ SaveAndLoadFresh

SpecPersist == InitPersist /\ [][NextPersist]_vars

\* ------------------------------------------------------------------------
\* Claims about ApiProxy
\* ------------------------------------------------------------------------
\* C1: a proxy on which record_error was called max_consecutive_errors times in a
\* row, with no record_success (or any other write of its error state) in between,
\* has is_active = False and disabled_at > 0, whatever error types were passed.
C1_DisabledAfterFiveErrors ==
  \A i \in 1..Len(proxies) :
    proxies[i].err_run = max_consecutive_errors
      => (~proxies[i].is_active /\ proxies[i].disabled_at > 0)

\* five errors in a row, of more than one error type
C1_Witness ==
  \E i \in 1..Len(proxies) :
    /\ proxies[i].err_run = max_consecutive_errors
    /\ proxies[i].error_types["unknown"] > 0
    /\ proxies[i].error_types["timeout"] > 0
    /\ proxies[i].error_types["auth_error"] > 0

\* ------------------------------------------------------------------------
\* Claims about select_best_proxy.  last_select holds the arguments, the pool
\* before the call and the position returned; in the state that follows the
\* call, proxies is the pool as the circuit-breaker evaluation left it.
\* ------------------------------------------------------------------------
Selected == last_select.called
ActiveBefore == {i \in 1..Len(last_select.before) : last_select.before[i].is_active}
\* the candidates that passed the circuit-breaker filter
KeptCandidates ==
  {i \in ActiveBefore :
     /\ InSeq(i, candidate_proxies(last_select.before, last_select.model))
     /\ ~_is_circuit_breaker_open(last_select.before[i], now)}
TierAvailable ==
  {i \in ActiveBefore : InSeq(last_select.model, last_select.before[i].available_models)}
TierDeclared ==
  {i \in ActiveBefore : InSeq(last_select.model, last_select.before[i].models)}

\* C2: select_best_proxy(model=None) returns None or a proxy that was active;
\* it never returns a proxy with is_active = False.
C2_NeverReturnsInactive ==
  (Selected /\ last_select.model = NoModel /\ last_select.result # None)
    => last_select.before[last_select.result].is_active

C2_Witness ==
  /\ Selected /\ last_select.model = NoModel /\ last_select.result # None
  /\ \E i \in 1..Len(last_select.before) : ~last_select.before[i].is_active

\* C3 (as stated): for every model argument, select_best_proxy returns None if and
\* only if the pool holds no proxy that is active and whose circuit is not open.
C3_NoneIffNoUsableProxy ==
  Selected =>
    ((last_select.result = None)
       <=> ~(\E i \in ActiveBefore : ~_is_circuit_breaker_open(last_select.before[i], now)))

\* C4: with a model given, the proxy returned comes from the first non-empty tier:
\* the active proxies with the model in available_models, else those that declare
\* it in models, else all active proxies; and in the last tier a proxy is returned
\* whenever some active proxy's circuit is not open.
C4_PreferenceTiers ==
  (Selected /\ last_select.model # NoModel) =>
    /\ last_select.result # None =>
         /\ TierAvailable # {} => last_select.result \in TierAvailable
         /\ (TierAvailable = {} /\ TierDeclared # {}) => last_select.result \in TierDeclared
         /\ (TierAvailable = {} /\ TierDeclared = {}) => last_select.result \in ActiveBefore
    /\ ( /\ TierAvailable = {} /\ TierDeclared = {}
         /\ \E i \in ActiveBefore : ~_is_circuit_breaker_open(last_select.before[i], now) )
         => last_select.result # None

\* the tier decided the result: an active proxy outside the tier scores strictly higher
C4_Witness ==
  /\ Selected /\ last_select.model # NoModel /\ last_select.result # None
  /\ TierAvailable # {}
  /\ \E j \in ActiveBefore \ TierAvailable :
       /\ ~_is_circuit_breaker_open(last_select.before[j], now)
       /\ ~ScoreGeq(proxies[last_select.result], proxies[j], now)

\* C5: the proxy returned has the highest score among the candidates, and among the
\* candidates with that score it is the first of the pool's list.
C5_TiesGoToFirst ==
  (Selected /\ last_select.result # None) =>
    \A j \in KeptCandidates :
      /\ ScoreGeq(proxies[last_select.result], proxies[j], now)
      /\ ScoreEq(proxies[last_select.result], proxies[j], now) => last_select.result <= j

C5_Witness ==
  /\ Selected /\ last_select.result # None
  /\ \E j \in KeptCandidates :
       /\ j > last_select.result
       /\ ScoreEq(proxies[last_select.result], proxies[j], now)

\* two proxies equal in every field but name and priority
SameButPriority(a, b) ==
  /\ a.priority # b.priority
  /\ [a EXCEPT !.name = "", !.priority = 0, !.err_run = 0]
       = [b EXCEPT !.name = "", !.priority = 0, !.err_run = 0]

\* C6 (as stated): of two candidates that differ in priority only, the one with the
\* lower priority number is returned, whatever their order in the list.
C6_LowerPriorityPreferred ==
  (Selected /\ last_select.result # None) =>
    \A i \in KeptCandidates, j \in KeptCandidates :
      (SameButPriority(proxies[i], proxies[j]) /\ proxies[i].priority < proxies[j].priority)
        => last_select.result # j

\* ------------------------------------------------------------------------
\* Claims about persistence, keys and call_api
\* ------------------------------------------------------------------------
\* two pools hold the same proxy names and, name by name, the same priority and
\* is_active flag
SameNamesPrioritiesFlags(ps, qs) ==
  /\ \A i \in 1..Len(ps) : \E j \in 1..Len(qs) :
       /\ qs[j].name = ps[i].name
       /\ qs[j].priority = ps[i].priority
       /\ qs[j].is_active = ps[i].is_active
  /\ \A j \in 1..Len(qs) : \E i \in 1..Len(ps) :
       /\ ps[i].name = qs[j].name
       /\ ps[i].priority = qs[j].priority
       /\ ps[i].is_active = qs[j].is_active

\* C7 (as stated): for any pool whose config file exists, save_proxy_config then a
\* fresh ApiProxyPool from the file gives the same names, priorities and flags.
C7_RoundTripWhenFileExists ==
  (roundtrip.done /\ roundtrip.existed)
    => SameNamesPrioritiesFlags(roundtrip.pool, roundtrip.fresh)

\* C7 (amended): whenever save_proxy_config returns True (the file exists and holds
\* a JSON object), a fresh ApiProxyPool built from the file has the same proxy
\* names and, for each name, the same priority and is_active flag as the pool saved.
C7_RoundTripWhenSaved ==
  (roundtrip.done /\ roundtrip.saved)
    => SameNamesPrioritiesFlags(roundtrip.pool, roundtrip.fresh)

\* a save that rewrote the file with a pool holding an inactive proxy
C7_Witness ==
  /\ roundtrip.done /\ roundtrip.saved /\ roundtrip.rewritten
  /\ \E i \in 1..Len(roundtrip.pool) : ~roundtrip.pool[i].is_active
  /\ \E i \in 1..Len(roundtrip.pool) : roundtrip.pool[i].priority # 1

\* C8 (as stated): every proxy with a non-empty api_keys list has
\* current_key_index < len(api_keys), in every reachable state.
C8_KeyIndexInRange ==
  \A i \in 1..Len(proxies) :
    proxies[i].api_keys # <<>> => proxies[i].current_key_index < Len(proxies[i].api_keys)

\* C9: call_api makes at most max_retries attempts, makes no attempt after one that
\* succeeded and returns then, and when every attempt failed it raises the
\* exception of the last attempt.
C9_RetriesBoundedFirstSuccessLastError ==
  call.pc # "idle" =>
    /\ Len(call.log) <= call.max_retries
    /\ \A k \in 1..(Len(call.log) - 1) : error_of(call.log[k]) # ""
    /\ call.pc = "calling" =>
         /\ Len(call.log) < call.max_retries
         /\ \A k \in 1..Len(call.log) : error_of(call.log[k]) # ""
    /\ call.pc = "returned" =>
         /\ call.log # <<>>
         /\ error_of(call.log[Len(call.log)]) = ""
    /\ (call.pc = "raised" /\ call.log # <<>>) =>
         /\ Len(call.log) = call.max_retries
         /\ error_of(call.log[Len(call.log)]) # ""
         /\ call.raised = error_of(call.log[Len(call.log)])

\* every attempt failed, and the last exception differs from the first
C9_Witness ==
  /\ call.pc = "raised"
  /\ Len(call.log) = default_max_retries
  /\ call.raised # error_of(call.log[1])

\* C10 (as stated): an attempt of call_api that failed, by a non-200 answer or by an
\* exception of the HTTP client, has raised error_count and consecutive_errors of
\* the proxy by exactly one.
C10_EveryFailureCounted ==
  (call.pc # "idle" /\ call.log # <<>> /\ error_of(call.log[Len(call.log)]) # "") =>
    /\ proxies[call.proxy].error_count = call.errors_before + 1
    /\ proxies[call.proxy].consecutive_errors = call.consecutive_before + 1

\* ------------------------------------------------------------------------
\* POST /api/questions/search: the route, SearchService and ModelService
\* ------------------------------------------------------------------------
MaxSearchErrors == 3
MaxSearchRequests == 1
search_max_attempts == 3
concurrent_tasks == 3

\* the JSON object of a 200 answer: with or without choices, and the text of the
\* first choice ("4", blanks only, or nothing)
Contents == {"4", " ", ""}
NoBody == [choices |-> FALSE, content |-> ""]
Bodies == {NoBody} \cup {[choices |-> TRUE, content |-> c] : c \in Contents}

NoneResponse == [kind |-> "none", content |-> ""]
NoneAnswer == [none |-> TRUE, text |-> ""]
NoneResult == [kind |-> "none"]

\* generate_response as it would be without its except clause
GenerateResponseReraises(selected, c, body) ==
  IF selected = None THEN NoneResponse
  ELSE IF c.pc = "raised" THEN [kind |-> "raise", content |-> c.raised]
  ELSE IF body.choices THEN [kind |-> "response", content |-> body.content]
  ELSE NoneResponse

\* ModelService.generate_response once select_best_proxy and call_api have ended:
\* a ModelResponse with the content, or None
generate_response(selected, c, body) ==
  IF selected = None THEN NoneResponse
  ELSE IF c.pc = "raised" THEN NoneResponse
  ELSE IF body.choices THEN [kind |-> "response", content |-> body.content]
  ELSE NoneResponse

\* ModelService._clean_answer: nothing for an empty text, the text stripped otherwise
_clean_answer(raw_answer) ==
  IF raw_answer = "" THEN "" ELSE IF raw_answer = " " THEN "" ELSE raw_answer

\* ModelService.generate_answer, given what generate_response did
generate_answer(r) ==
  IF r.kind = "response" THEN [none |-> FALSE, text |-> _clean_answer(r.content)]
  ELSE NoneAnswer

\* Python's truth value of an answer
Truthy(a) == ~a.none /\ a.text # ""

\* search_task(task_id) of _concurrent_search
search_task(task_id, a) ==
  IF Truthy(a)
  THEN [kind |-> "dict", success |-> TRUE, answer |-> a.text, task_id |-> task_id,
        source |-> "ai_concurrent"]
  ELSE NoneResult

\* _concurrent_search once its tasks have ended; timed_out: as_completed raised
\* TimeoutError
_concurrent_search(answers, strategy, timed_out) ==
  LET results == {search_task(i, answers[i]) : i \in 1..Len(answers)} \ {NoneResult}
  IN IF timed_out \/ results = {} THEN NoneResult
     ELSE CHOOSE r \in results : \A q \in results : q.task_id <= r.task_id

\* _search_with_ai without the raise on an empty answer
SearchWithAiNoRaise(answers) ==
  LET a == answers[Len(answers)]
  IN [kind |-> "dict", success |-> TRUE, answer |-> a.text, task_id |-> 0, source |-> "ai_single"]

\* _search_with_ai under retry_with_backoff, once its attempts have ended
_search_with_ai(answers) ==
  LET a == answers[Len(answers)]
  IN IF Truthy(a)
     THEN [kind |-> "dict", success |-> TRUE, answer |-> a.text, task_id |-> 0,
           source |-> "ai_single"]
     ELSE [kind |-> "raise", exc |-> "cannot generate answer"]

\* ErrorClassifier.classify_error for the exceptions that reach search_question
classify_error(exc) ==
  IF exc = "Timeout" THEN [category |-> "timeout", message |-> "request timed out"]
  ELSE IF exc = "ConnectionError" THEN [category |-> "network", message |-> "network error"]
  ELSE [category |-> "unknown", message |-> "unknown error: cannot generate answer"]

\* SearchService.search_question: what it returns (raised = FALSE) for the result of
\* _concurrent_search or _search_with_ai
search_question(ai_result) ==
  IF ai_result.kind = "dict" /\ ai_result.success
  THEN [raised |-> FALSE, success |-> TRUE, answer |-> ai_result.answer,
        message |-> "", error_category |-> ""]
  ELSE IF ai_result.kind = "none"
  THEN [raised |-> FALSE, success |-> FALSE, answer |-> "",
        message |-> "AI search failed", error_category |-> ""]
  ELSE [raised |-> FALSE, success |-> FALSE, answer |-> "",
        message |-> classify_error(ai_result.exc).message,
        error_category |-> classify_error(ai_result.exc).category]

\* the route: the branch that answers, and the HTTP answer
route_search_question(result) ==
  IF result.raised
  THEN [via |-> "exception_handler", status |-> 500, success |-> FALSE, message |-> result.message]
  ELSE IF result.success
  THEN [via |-> "success", status |-> 200, success |-> TRUE, message |-> "ok"]
  ELSE [via |-> "failure", status |-> 200, success |-> FALSE, message |-> result.message]

\* the generate_answer calls one request makes at most
calls_of(s) ==
  IF s.concurrent
  THEN IF s.strategy = "first_success" THEN 1 ELSE concurrent_tasks
  ELSE search_max_attempts

\* the request after one more generate_answer call has ended
after_answer(s, raised, r) ==
  LET a == generate_answer(r)
      calls == Append(s.calls, [raised |-> raised, response |-> r, answer |-> a])
      more == /\ Len(calls) < calls_of(s)
              /\ s.concurrent \/ ~Truthy(a)
  IN [s EXCEPT !.calls = calls, !.pc = IF more THEN "generate" ELSE "finish"]

\* the sleep of retry_with_backoff after a failed attempt, in whole seconds
RetryDelays(attempt) == IF attempt = 1 THEN {1} ELSE {1, 2}

\* the route receives a request with a question; search_question starts
SearchQuestion ==
  /\ search.pc \in {"idle", "done"}
  /\ ~InFlight
  /\ env.ops < env.max_ops
  /\ \E concurrent \in BOOLEAN, strategy \in {"first_success", "best_match"} :
       search' = [pc |-> "generate", concurrent |-> concurrent, strategy |-> strategy,
                  calls |-> <<>>]
  /\ env' = [env EXCEPT !.ops = @ + 1]
  /\ call' = NoCall
  /\ last_select' = NoSelect
  /\ UNCHANGED <<proxies, now, config_file, roundtrip, threads, last_op>>

\* generate_answer -> generate_response: select_best_proxy(None), then call_api is
\* entered on the proxy selected; the tasks of a concurrent search take their turns
\* one after another
GenerateAnswer ==
  /\ search.pc = "generate"
  /\ LET r == select_best_proxy(proxies, NoModel, now)
     IN /\ proxies' = r[2]
        /\ last_select' = [called |-> TRUE, model |-> NoModel, before |-> proxies,
                           result |-> r[1]]
        /\ IF r[1] = None
           THEN /\ call' = NoCall
                /\ search' = after_answer(search, "", generate_response(None, NoCall, NoBody))
           ELSE /\ call' = call_api_enter(r[1], r[2][r[1]], default_max_retries)
                /\ search' = [search EXCEPT !.pc = "calling"]
  /\ UNCHANGED <<now, config_file, roundtrip, env, threads, last_op>>

\* call_api has returned or raised: generate_response and generate_answer end, and a
\* single-shot search sleeps before its next attempt
GenerateAnswerReturn ==
  /\ search.pc = "calling"
  /\ call.pc \in {"returned", "raised"}
  /\ \E body \in Bodies :
       /\ call.pc = "raised" => body = NoBody
       /\ LET s == after_answer(search, call.raised, generate_response(call.proxy, call, body))
          IN /\ search' = s
             /\ IF s.pc = "generate" /\ ~s.concurrent
                THEN \E d \in RetryDelays(Len(s.calls)) : now' = now + d
                ELSE now' = now
  /\ UNCHANGED <<proxies, config_file, call, last_select, roundtrip, env, threads, last_op>>

\* _concurrent_search or _search_with_ai ends, search_question returns and the
\* route answers
SearchRespond ==
  /\ search.pc = "finish"
  /\ \E timed_out \in BOOLEAN :
       /\ timed_out => search.concurrent
       /\ LET answers == [i \in 1..Len(search.calls) |-> search.calls[i].answer]
              ai_result == IF search.concurrent
                           THEN _concurrent_search(answers, search.strategy, timed_out)
                           ELSE _search_with_ai(answers)
              result == search_question(ai_result)
          IN search' = [pc |-> "done", concurrent |-> search.concurrent,
                        strategy |-> search.strategy, calls |-> search.calls,
                        timed_out |-> timed_out, result |-> result,
                        response |-> route_search_question(result)]
  /\ UNCHANGED <<proxies, now, config_file, call, last_select, roundtrip, env, threads, last_op>>

InitSearch ==
  InitFrom({CfgTiered},
           Scenario({"A"}, {500}, {"Timeout"}, {NoModel}, MaxSearchErrors, MaxSuccesses,
                    {}, 0, MaxSearchRequests, MaxSearchRequests + 1))

NextSearch ==
  \/ SearchQuestion
  \/ GenerateAnswer
  \/ CallApiAttempt
  \/ GenerateAnswerReturn
  \/ SearchRespond

SpecSearch == InitSearch /\ [][NextSearch]_vars

\* ------------------------------------------------------------------------
\* C11, as stated: when call_api has raised after its last retry while serving a
\* search request, the exception reaches the route, whose generic exception handler
\* builds the JSON error response.
\* ------------------------------------------------------------------------
CallApiRaised(s) == \E i \in 1..Len(s.calls) : s.calls[i].raised # ""

C12_SearchQuestionNeverRaises ==
  search.pc = "done" =>
    /\ ~search.result.raised
    /\ search.result.success \in BOOLEAN
    /\ search.result.success =>
         \E i \in 1..Len(search.calls) :
           /\ Truthy(search.calls[i].answer)
           /\ search.result.answer = search.calls[i].answer.text

C12_Witness ==
  /\ search.pc = "done"
  /\ search.concurrent
  /\ search.strategy = "best_match"
  /\ search.result.success
  /\ CallApiRaised(search)

\* ------------------------------------------------------------------------
\* Key rotation inside the retry loop, with the admin replacing key lists
\* ------------------------------------------------------------------------
MaxRotateErrors == 3
MaxRotateOps == 1

InitRotate ==
  InitFrom({CfgTiered},
           Scenario({"A", "B"}, {401, 403, 500}, {}, {NoModel}, MaxRotateErrors,
                    MaxSuccesses, {}, 0, MaxRotateOps, MaxRotateOps + 1))

NextRotate ==
  \/ SelectBestProxy
  \/ CallApiAttempt
  \/ UpdateApiProxy

SpecRotate == InitRotate /\ [][NextRotate]_vars

\* ------------------------------------------------------------------------
\* C13: on a 401 or 403 answer _make_api_request records the failure and, when the
\* proxy has more than one key, moves current_key_index from i to (i + 1) mod
\* len(api_keys), so that the next attempt of the retry loop uses the next key in
\* round-robin order; any other answer, a success and a raised request leave
\* current_key_index as it was.
\* ------------------------------------------------------------------------
C13_RotateOnAuthFailureOnly ==
  (call.pc # "idle" /\ call.log # <<>>) =>
    LET o == call.log[Len(call.log)]
        p == proxies[call.proxy]
        i == call.key_index_before
        n == Len(p.api_keys)
    IN IF o.kind = "response" /\ o.status \in {401, 403}
       THEN /\ p.error_count = call.errors_before + 1
            /\ p.current_key_index = IF n > 1 THEN (i + 1) % n ELSE i
            /\ n > 1 => get_current_key(p) = p.api_keys[(((i % n) + 1) % n) + 1]
       ELSE p.current_key_index = i

C13_Witness ==
  /\ call.pc = "calling"
  /\ call.log # <<>>
  /\ call.log[Len(call.log)] = Response(403, 1)
  /\ Len(proxies[call.proxy].api_keys) = 3
  /\ call.key_index_before = 2
  /\ proxies[call.proxy].current_key_index = 0

\* ------------------------------------------------------------------------
\* record_success and record_error called from several threads
\* ------------------------------------------------------------------------
MaxRecordErrors == 2
MaxRecordSuccesses == 1
MaxRecordSteps == 2

Threads == {"request", "health_check", "model_test"}
ThreadIdle == [pc |-> "idle"]

\* a proxy that has served for a while: 100 successes and 400 failures, the last four
\* calls failures, one call per second
VeteranProxy ==
  LET n == response_times_window
      m == timestamp_window
  IN [ApiProxy("A", <<"k1">>, "m1", <<"m1">>, TRUE, 1, <<>>, StartTime - timestamp_window)
        EXCEPT !.success_count = n,
               !.error_count = m - n,
               !.response_times = [k \in 1..n |-> 1 + (k % 3)],
               !.request_timestamps = [k \in 1..m |-> StartTime - m + k - 1],
               !.last_used = StartTime - 1,
               !.last_success_time = StartTime - 5,
               !.consecutive_errors = max_consecutive_errors - 1,
               !.err_run = max_consecutive_errors - 1,
               !.error_types["unknown"] = m - n]

\* Lock.acquire() returning whatever the holder
AcquireUnlocked(holder) == TRUE

\* Lock.acquire() returns when nobody holds the lock
can_acquire(holder) == holder = ""

\* the body of record_success / record_error as thread th runs it: the counter is
\* read when the body starts and written back, one higher, with the rest
record_body(p, th) ==
  IF th.op = "record_success"
  THEN [record_success(p, th.rt, th.t) EXCEPT !.success_count = th.count + 1]
  ELSE [record_error(p, "unknown", th.t) EXCEPT !.error_count = th.count + 1]

InitRecord ==
  /\ config_file = [kind |-> "missing"]
  /\ now = StartTime
  /\ proxies = <<VeteranProxy, ApiProxy("B", <<"k1">>, "m1", <<"m1">>, TRUE, 1, <<>>, StartTime)>>
  /\ call = NoCall
  /\ last_select = NoSelect
  /\ roundtrip = NoRoundtrip
  /\ search = NoSearch
  /\ last_op = NoOp
  /\ threads = [lock |-> [i \in 1..Len(proxies) |-> ""],
                th |-> [tid \in Threads |-> ThreadIdle],
                completed |-> [i \in 1..Len(proxies) |->
                                 [record_success |-> proxies[i].success_count,
                                  record_error |-> proxies[i].error_count,
                                  response_times |-> proxies[i].response_times,
                                  request_timestamps |-> proxies[i].request_timestamps]]]
  /\ env = Scenario({}, {}, {}, {}, MaxRecordErrors, MaxRecordSuccesses, {1}, 1, 0, MaxRecordSteps)

\* a thread calls proxy.record_success(response_time) or proxy.record_error(): it
\* takes the proxy's lock, reads the clock and the counter
RecordEnter ==
  /\ \E tid \in Threads, i \in 1..Len(proxies), rt \in ResponseTimes,
        op \in {"record_success", "record_error"} :
       /\ threads.th[tid].pc = "idle"
       /\ can_acquire(threads.lock[i])
       /\ IF op = "record_success"
          THEN /\ env.successes < env.max_successes
               /\ Others < env.max_other
               /\ env' = [env EXCEPT !.successes = @ + 1]
          ELSE /\ env.errors < env.max_errors
               /\ rt = 1
               /\ env' = [env EXCEPT !.errors = @ + 1]
       /\ threads' = [threads EXCEPT
                        !.lock[i] = tid,
                        !.th[tid] = [pc |-> "locked", op |-> op, proxy |-> i, rt |-> rt, t |-> now,
                                     count |-> IF op = "record_success"
                                               THEN proxies[i].success_count
                                               ELSE proxies[i].error_count]]
  /\ UNCHANGED <<proxies, now, config_file, call, last_select, roundtrip, search, last_op>>

\* the thread writes the fields, leaves the with block and returns
RecordExit ==
  /\ \E tid \in Threads :
       /\ threads.th[tid].pc = "locked"
       /\ LET th == threads.th[tid]
              p == proxies[th.proxy]
              q == record_body(p, th)
          IN /\ proxies' = [proxies EXCEPT ![th.proxy] = q]
             /\ last_op' = [op |-> th.op, proxy |-> th.proxy, before |-> p, after |-> q]
             /\ threads' = [threads EXCEPT
                              !.lock[th.proxy] = "",
                              !.th[tid] = ThreadIdle,
                              !.completed[th.proxy][th.op] = @ + 1,
                              !.completed[th.proxy].response_times =
                                 IF th.op = "record_success" THEN Append(@, th.rt) ELSE @,
                              !.completed[th.proxy].request_timestamps = Append(@, th.t)]
  /\ UNCHANGED <<now, config_file, call, last_select, roundtrip, search, env>>

NextRecord ==
  \/ RecordEnter
  \/ RecordExit
  \/ Tick

SpecRecord == InitRecord /\ [][NextRecord]_vars

\* ------------------------------------------------------------------------
\* C14: for every proxy and every prior state, a single record_success() call leaves
\* consecutive_errors = 0.
\* ------------------------------------------------------------------------
C14_RecordSuccessResetsConsecutiveErrors ==
  last_op.op = "record_success" => last_op.after.consecutive_errors = 0

C14_Witness ==
  /\ last_op.op = "record_success"
  /\ last_op.before.consecutive_errors >= max_consecutive_errors
  /\ ~last_op.before.is_active
  /\ last_op.after.consecutive_errors = 0

\* ------------------------------------------------------------------------
\* C15: after any sequence of record_success and record_error calls on a proxy,
\* response_times has at most 100 entries and request_timestamps at most 500, and
\* each list holds the most recent entries in call order: the oldest are dropped.
\* ------------------------------------------------------------------------
IsSuffix(s, all) ==
  /\ Len(s) <= Len(all)
  /\ \A k \in 1..Len(s) : s[k] = all[Len(all) - Len(s) + k]

C15_BoundedListsKeepMostRecent ==
  \A i \in 1..Len(proxies) :
    threads # NoThreads =>
      /\ Len(proxies[i].response_times) <= response_times_window
      /\ Len(proxies[i].request_timestamps) <= timestamp_window
      /\ IsSuffix(proxies[i].response_times, threads.completed[i].response_times)
      /\ IsSuffix(proxies[i].request_timestamps, threads.completed[i].request_timestamps)
      /\ Len(threads.completed[i].response_times) >= response_times_window
           => Len(proxies[i].response_times) = response_times_window
      /\ Len(threads.completed[i].request_timestamps) >= timestamp_window
           => Len(proxies[i].request_timestamps) = timestamp_window

C15_Witness ==
  /\ threads # NoThreads
  /\ Len(threads.completed[1].response_times) > response_times_window
  /\ Len(threads.completed[1].request_timestamps) > timestamp_window + 1
  /\ Len(proxies[1].response_times) = response_times_window
  /\ Len(proxies[1].request_timestamps) = timestamp_window

\* ------------------------------------------------------------------------
\* C17: the per-proxy lock makes the counter updates atomic: under any interleaving
\* of record_success and record_error calls from request threads, the health-check
\* thread and the model-test thread, success_count is the number of completed
\* record_success calls and error_count the number of completed record_error calls.
\* ------------------------------------------------------------------------
C17_NoLostUpdate ==
  \A i \in 1..Len(proxies) :
    threads # NoThreads =>
      /\ proxies[i].success_count = threads.completed[i].record_success
      /\ proxies[i].error_count = threads.completed[i].record_error

C17_Witness ==
  /\ threads # NoThreads
  /\ threads.th["request"].pc = "locked"
  /\ threads.th["health_check"].pc = "locked"
  /\ threads.th["request"].proxy # threads.th["health_check"].proxy
  /\ threads.completed[1].record_error > timestamp_window - response_times_window

\* ------------------------------------------------------------------------
\* POST /add served by two request threads: add_proxy holds no lock
\* ------------------------------------------------------------------------
MaxAddOps == 3

RequestThreads == {"request_1", "request_2"}

InitAdd ==
  /\ config_file = CfgTiered
  /\ now = StartTime
  /\ proxies = fresh_pool(config_file, now)
  /\ call = NoCall
  /\ last_select = NoSelect
  /\ roundtrip = NoRoundtrip
  /\ search = NoSearch
  /\ last_op = NoOp
  /\ threads = [th |-> [tid \in RequestThreads |-> ThreadIdle]]
  /\ env = Scenario({}, {}, {}, {}, 0, 0, {}, 0, MaxAddOps, MaxAddOps)

\* add_proxy, first half: get_proxy_by_name(name); an existing name returns False
\* and the route answers 409
AddProxyCheck ==
  /\ env.ops < env.max_ops
  /\ \E tid \in RequestThreads, data \in NewProxies :
       /\ threads.th[tid].pc = "idle"
       /\ threads' = IF get_proxy_by_name(proxies, data.name) # None
                     THEN threads
                     ELSE [threads EXCEPT !.th[tid] = [pc |-> "append", data |-> data]]
       /\ last_op' = [op |-> "add_proxy", thread |-> tid, name |-> data.name,
                      found |-> get_proxy_by_name(proxies, data.name) # None,
                      before |-> proxies]
  /\ env' = [env EXCEPT !.ops = @ + 1]
  /\ UNCHANGED <<proxies, now, config_file, call, last_select, roundtrip, search>>

\* add_proxy, second half: the ApiProxy is built and appended, add_proxy returns
\* True and the route saves the configuration
AddProxyAppend ==
  /\ \E tid \in RequestThreads :
       /\ threads.th[tid].pc = "append"
       /\ LET e == threads.th[tid].data
              ps2 == Append(proxies, ApiProxy(e.name, e.api_keys, e.model, e.models,
                                              Get(e, "is_active", TRUE), Get(e, "priority", 1),
                                              <<>>, now))
          IN /\ proxies' = ps2
             /\ config_file' = save_proxy_config(config_file, ps2)[2]
       /\ threads' = [threads EXCEPT !.th[tid] = ThreadIdle]
  /\ UNCHANGED <<now, call, last_select, roundtrip, env, search, last_op>>

\* DELETE /<proxy_name> while no add_proxy is under way
DeleteWhileQuiet ==
  /\ \A tid \in RequestThreads : threads.th[tid].pc = "idle"
  /\ DeleteApiProxy

NextAdd ==
  \/ AddProxyCheck
  \/ AddProxyAppend
  \/ DeleteWhileQuiet

SpecAdd == InitAdd /\ [][NextAdd]_vars

\* ------------------------------------------------------------------------
\* C16: proxy names are a unique key: in every reachable state of the pool no two
\* proxies share a name, also when two add_proxy calls with the same name run
\* concurrently on different request threads.
\* ------------------------------------------------------------------------
C16_NamesUnique ==
  \A i, j \in 1..Len(proxies) : proxies[i].name = proxies[j].name => i = j

\* ------------------------------------------------------------------------
\* C18, as stated: every time a proxy's consecutive_errors has reached
\* circuit_breaker_threshold, on the first trip and on every later one, the next
\* evaluation of _is_circuit_breaker_open reports the circuit open, sets
\* circuit_breaker_opened_at to the current time and leaves consecutive_errors as it
\* is, so that select_best_proxy does not return the proxy. (No evaluation has taken
\* place since the trip when the attribute still has its initial value 0.0 or is
\* absent.)
\* ------------------------------------------------------------------------
Evaluated ==
  {i \in ActiveBefore : InSeq(i, candidate_proxies(last_select.before, last_select.model))}

C18_EveryTripOpensCircuit ==
  Selected =>
    \A i \in Evaluated :
      ( /\ last_select.before[i].consecutive_errors >= circuit_breaker_threshold
        /\ last_select.before[i].circuit_breaker_opened_at \in {0, NoAttr} )
      => /\ _is_circuit_breaker_open(last_select.before[i], now)
         /\ proxies[i].circuit_breaker_opened_at = now
         /\ proxies[i].consecutive_errors = last_select.before[i].consecutive_errors
         /\ last_select.result # i

\* ------------------------------------------------------------------------
\* Circuit-breaker scenario: proxy B has been deleted and proxy A has been through a
\* first trip (five failures, re-activated by the admin, breaker reset by the next
\* selection) and four more failures; the clock moves to just before and to the end
\* of the timeout
\* ------------------------------------------------------------------------
MaxBreakerErrors == 2
MaxBreakerSteps == 4

RECURSIVE record_errors(_, _, _)
record_errors(p, n, t) ==
  IF n = 0 THEN p ELSE record_errors(record_error(p, "unknown", t), n - 1, t)

TrippedOnce(p) ==
  LET disabled == record_errors(p, max_consecutive_errors, p.created_at + 10)
      active == [disabled EXCEPT !.is_active = TRUE, !.err_run = 0]
      reset == circuit_breaker_effect(active, p.created_at + 20)
  IN record_errors(reset, circuit_breaker_threshold - 1, p.created_at + 30)

InitBreaker ==
  /\ now = StartTime
  /\ proxies = <<TrippedOnce(fresh_pool(CfgTiered, now - 40)[1])>>
  /\ config_file = save_proxy_config(CfgTiered, proxies)[2]
  /\ call = NoCall
  /\ last_select = NoSelect
  /\ roundtrip = NoRoundtrip
  /\ search = NoSearch
  /\ threads = NoThreads
  /\ last_op = NoOp
  /\ env = Scenario({"A"}, {500}, {}, {NoModel}, MaxBreakerErrors, MaxSuccesses,
                    {circuit_breaker_timeout - 1, 1}, 2, MaxAdminOps - 1, MaxBreakerSteps)

\* POST /<proxy_name>/test: one request to the proxy's upstream, then record_success
\* for a 200 answer and record_error() for any other answer or an exception
TestApiProxy ==
  /\ ~InFlight
  /\ \E i \in 1..Len(proxies), o \in Outcomes :
       LET j == get_proxy_by_name(proxies, proxies[i].name)
           ok == error_of(o) = ""
           q == IF ok THEN record_success(proxies[j], o.rt, now)
                ELSE record_error(proxies[j], "unknown", now)
       IN /\ IF ok
             THEN env.successes < env.max_successes /\ Others < env.max_other
             ELSE env.errors < env.max_errors /\ proxies[j].name \in env.flaky
          /\ o \in HttpErrorOutcomes => o.status \in env.statuses
          /\ o \in RaiseOutcomes => o.exc \in env.raises
          /\ proxies' = [proxies EXCEPT ![j] = q]
          /\ last_op' = [op |-> IF ok THEN "record_success" ELSE "record_error", proxy |-> j,
                         before |-> proxies[j], after |-> q]
          /\ env' = IF ok THEN [env EXCEPT !.successes = @ + 1]
                    ELSE [env EXCEPT !.errors = @ + 1]
  /\ last_select' = NoSelect
  /\ call' = NoCall
  /\ UNCHANGED <<now, config_file, roundtrip, search, threads>>

NextBreaker ==
  \/ SelectBestProxy
  \/ TestApiProxy
  \/ CallApiAttempt
  \/ UpdateApiProxyStatus
  \/ Tick

SpecBreaker == InitBreaker /\ [][NextBreaker]_vars

\* ------------------------------------------------------------------------
\* C19, as stated: once a proxy's circuit has opened at time t, every evaluation
\* before t + circuit_breaker_timeout that finds consecutive_errors still at or above
\* the threshold reports it open and select_best_proxy does not return the proxy; the
\* first evaluation at or after t + 300 s resets consecutive_errors to 0 and reports
\* the circuit closed.
\* ------------------------------------------------------------------------
OpenedAt(p) == IF p.circuit_breaker_opened_at \in {0, NoAttr} THEN None ELSE p.circuit_breaker_opened_at

C19_OpenUntilTimeoutThenReset ==
  Selected =>
    \A i \in Evaluated :
      LET b == last_select.before[i]
      IN OpenedAt(b) # None =>
           IF now < OpenedAt(b) + circuit_breaker_timeout
           THEN b.consecutive_errors >= circuit_breaker_threshold =>
                  /\ _is_circuit_breaker_open(b, now)
                  /\ last_select.result # i
           ELSE /\ ~_is_circuit_breaker_open(b, now)
                /\ proxies[i].consecutive_errors = 0

\* C19, amended: the reset at or after t + 300 s is made by the first evaluation that
\* still finds consecutive_errors at or above the threshold; it also removes
\* circuit_breaker_opened_at. An evaluation that finds the count below the threshold
\* reports the circuit closed and changes nothing.
C19_OpenUntilTimeoutThenResetIfTripped ==
  Selected =>
    \A i \in Evaluated :
      LET b == last_select.before[i]
      IN OpenedAt(b) # None =>
           IF b.consecutive_errors >= circuit_breaker_threshold
           THEN IF now < OpenedAt(b) + circuit_breaker_timeout
                THEN /\ _is_circuit_breaker_open(b, now)
                     /\ last_select.result # i
                     /\ proxies[i] = b
                ELSE /\ ~_is_circuit_breaker_open(b, now)
                     /\ proxies[i].consecutive_errors = 0
                     /\ proxies[i].circuit_breaker_opened_at = NoAttr
           ELSE /\ ~_is_circuit_breaker_open(b, now)
                /\ proxies[i] = b

C19_Witness ==
  /\ Selected
  /\ \E i \in Evaluated :
       /\ OpenedAt(last_select.before[i]) # None
       /\ now = OpenedAt(last_select.before[i]) + circuit_breaker_timeout
       /\ last_select.before[i].consecutive_errors >= circuit_breaker_threshold
       /\ proxies[i].consecutive_errors = 0

\* ------------------------------------------------------------------------
\* C20, as stated: a passing periodic health probe on an active proxy whose
\* consecutive_errors is k > 0 just before the probe nudges the count down by exactly
\* one, leaving consecutive_errors = k - 1. (Under SpecHealth a step that adds one
\* success to an active proxy is a passing regular check of the health-check worker.)
\* ------------------------------------------------------------------------
ProbePassed(i) ==
  /\ i \in 1..Len(proxies)
  /\ Len(proxies') = Len(proxies)
  /\ proxies[i].is_active
  /\ needs_health_check(proxies[i], now)
  /\ proxies'[i].last_health_check = now
  /\ proxies'[i].success_count = proxies[i].success_count + 1
  /\ proxies'[i].error_count = proxies[i].error_count

C20_PassingProbeDecrementsByOne ==
  [][\A i \in 1..Len(proxies) :
       (ProbePassed(i) /\ proxies[i].consecutive_errors > 0)
       => proxies'[i].consecutive_errors = proxies[i].consecutive_errors - 1]_vars

\* ------------------------------------------------------------------------
\* C21, as stated: a failed health probe of any failure kind (timeout, connection
\* error or non-200 answer; the regular probe and the auto-recovery probe) is
\* recorded as exactly one error: error_count and consecutive_errors each increase by
\* exactly 1. (Under SpecHealth only the health-check worker records errors, and a
\* check that records no success has issued a single probe.)
\* ------------------------------------------------------------------------
ProbeFailed(i) ==
  /\ i \in 1..Len(proxies)
  /\ Len(proxies') = Len(proxies)
  /\ needs_health_check(proxies[i], now)
  /\ proxies'[i].last_health_check = now
  /\ proxies'[i].success_count = proxies[i].success_count
  /\ proxies'[i].error_count > proxies[i].error_count

C21_FailedProbeCountsOnce ==
  [][\A i \in 1..Len(proxies) :
       ProbeFailed(i)
       => /\ proxies'[i].error_count = proxies[i].error_count + 1
          /\ proxies'[i].consecutive_errors = proxies[i].consecutive_errors + 1]_vars

\* ------------------------------------------------------------------------
\* Auto-recovery scenario: proxy B has been deleted and proxy A has just been disabled
\* by five errors in a row; the health-check worker probes it as time passes in steps
\* of one health-check interval or one recovery interval, the upstream of A times out
\* a bounded number of times and answers 200 within a second afterwards, the admin
\* switches A on or off or resets its errors. The caps on successes never bind.
\* ------------------------------------------------------------------------
MaxRecoveryErrors == 3
MaxRecoveryTicks == 4
MaxRecoveryOps == 1

InitRecovery ==
  /\ now = StartTime
  /\ config_file = save_proxy_config(CfgTiered, <<fresh_pool(CfgTiered, now - 10)[1]>>)[2]
  /\ proxies = <<record_errors(fresh_pool(config_file, now - 10)[1], max_consecutive_errors, now)>>
  /\ call = NoCall
  /\ last_select = NoSelect
  /\ roundtrip = NoRoundtrip
  /\ search = NoSearch
  /\ threads = NoThreads
  /\ last_op = NoOp
  /\ env = Scenario({"A"}, {}, {"Timeout"}, {NoModel}, MaxRecoveryErrors,
                    2 * (MaxRecoveryTicks + 1),
                    {health_check_interval + 1, auto_recovery_interval + 1},
                    MaxRecoveryTicks, MaxRecoveryOps,
                    3 * (MaxRecoveryTicks + 1) + MaxRecoveryOps)
             @@ [latencies |-> {1}]

NextRecovery ==
  \/ HealthCheckWorker
  \/ Tick
  \/ UpdateApiProxyStatus
  \/ ResetApiProxyErrors

SpecRecovery == InitRecovery /\ [][NextRecovery]_vars

\* the health-check thread keeps running and time keeps passing
SpecRecoveryFair == SpecRecovery /\ WF_vars(Tick) /\ WF_vars(HealthCheckWorker)

\* ------------------------------------------------------------------------
\* C22, as stated: _perform_health_check issues an auto-recovery probe for a proxy
\* (the step that raises auto_recovery_attempts) only if the proxy is inactive with
\* disabled_at > 0, more than auto_recovery_interval has elapsed since disabled_at and
\* auto_recovery_attempts < max_auto_recovery_attempts; consequently
\* auto_recovery_attempts never exceeds 3 and consecutive auto-recovery probes of one
\* proxy are more than 1800 s apart. (auto_recovery_enabled is True throughout.)
\* ------------------------------------------------------------------------
RecoveryProbed(i) ==
  /\ i \in 1..Len(proxies)
  /\ Len(proxies') = Len(proxies)
  /\ proxies'[i].auto_recovery_attempts > proxies[i].auto_recovery_attempts

C22_RecoveryProbeGuardAndSpacing ==
  [][\A i \in 1..Len(proxies) :
       /\ proxies[i].auto_recovery_attempts <= max_auto_recovery_attempts
       /\ RecoveryProbed(i)
          => /\ ~proxies[i].is_active
             /\ proxies[i].disabled_at > 0
             /\ now - proxies[i].disabled_at > auto_recovery_interval
             /\ proxies[i].auto_recovery_attempts < max_auto_recovery_attempts
             /\ proxies'[i].auto_recovery_attempts = proxies[i].auto_recovery_attempts + 1
             /\ (last_op.op = "recovery_probe" /\ last_op.proxy = i)
                => now - last_op.at > auto_recovery_interval]_vars

\* ------------------------------------------------------------------------
\* C23, as stated: if a proxy was disabled by consecutive errors, the health-check
\* thread keeps running and from some point on the upstream answers every request
\* with 200, then the proxy eventually becomes active again (is_active = True,
\* consecutive_errors = 0) without any admin action. Stated for the moments at which
\* the recovery interval has already elapsed, the upstream has failed for the last
\* time and the admin does nothing more, so that nothing but the health check itself
\* decides about the recovery.
\* ------------------------------------------------------------------------
DisabledByErrors(p) ==
  /\ ~p.is_active
  /\ p.consecutive_errors >= max_consecutive_errors
  /\ p.disabled_at > 0

UpstreamHealed == env.errors = env.max_errors /\ env.ops = env.max_ops

C23_DisabledProxyRecovers ==
  ( /\ DisabledByErrors(proxies[1])
    /\ now - proxies[1].disabled_at > auto_recovery_interval
    /\ UpstreamHealed )
  ~> (proxies[1].is_active /\ proxies[1].consecutive_errors = 0)

\* ------------------------------------------------------------------------
\* C24, as stated: in every reachable state an active proxy has consecutive_errors <
\* max_consecutive_errors, and consecutive_errors >= 5 coincides with
\* is_active = False and disabled_at set.
\* ------------------------------------------------------------------------
C24_ActiveBelowThreshold ==
  \A i \in 1..Len(proxies) :
    /\ proxies[i].is_active => proxies[i].consecutive_errors < max_consecutive_errors
    /\ proxies[i].consecutive_errors >= max_consecutive_errors
       => (~proxies[i].is_active /\ proxies[i].disabled_at > 0)

\* ------------------------------------------------------------------------
\* The background model test
\* ------------------------------------------------------------------------
model_test_max_count == 5
MaxModelTestPasses == 1

\* test_models: the declared list, or random.sample(models, model_test_max_count)
test_models_of(models) ==
  IF Len(models) > model_test_max_count
  THEN {s \in [1..model_test_max_count -> {models[k] : k \in 1..Len(models)}] :
          \A i, j \in 1..model_test_max_count : i # j => s[i] # s[j]}
  ELSE {models}

\* list(set(...)): the distinct values in an order the hash seed decides
list_of_set(S) ==
  {s \in [1..Cardinality(S) -> S] : \A i, j \in 1..Cardinality(S) : i # j => s[i] # s[j]}

\* the loop over test_models, one _make_api_request per model: <<the proxy afterwards,
\* the list available_models of the pass>>; the upstream serves the models in working
\* and answers the others with failure
RECURSIVE test_each_model(_, _, _, _, _)
test_each_model(p, test_models, working, failure, t) ==
  IF test_models = <<>> THEN <<p, <<>>>>
  ELSE LET o == IF Head(test_models) \in working THEN Response(200, 1) ELSE failure
           rest == test_each_model(_make_api_request(p, o, t), Tail(test_models),
                                   working, failure, t)
       IN <<rest[1], IF error_of(o) = "" THEN <<Head(test_models)>> \o rest[2] ELSE rest[2]>>

\* the merge as it would be if the pass replaced the list by what it found
TestProxyModelsReplace(p, test_models, working, failure, t) ==
  IF ~p.is_active \/ p.models = <<>> THEN {[proxy |-> p, save |-> FALSE]}
  ELSE LET r == test_each_model(p, test_models, working, failure, t)
           updated == {r[2][k] : k \in 1..Len(r[2])}
       IN IF r[2] # <<>>
             /\ updated # {r[1].available_models[k] : k \in 1..Len(r[1].available_models)}
          THEN {[proxy |-> [r[1] EXCEPT !.available_models = order], save |-> TRUE] :
                  order \in list_of_set(updated)}
          ELSE {[proxy |-> r[1], save |-> FALSE]}

\* _test_proxy_models(proxy): the possible results, each the proxy afterwards and
\* whether save_proxy_config was called
_test_proxy_models(p, test_models, working, failure, t) ==
  IF ~p.is_active \/ p.models = <<>> THEN {[proxy |-> p, save |-> FALSE]}
  ELSE LET r == test_each_model(p, test_models, working, failure, t)
           before == {r[1].available_models[k] : k \in 1..Len(r[1].available_models)}
           updated == before \cup {r[2][k] : k \in 1..Len(r[2])}
       IN IF r[2] # <<>> /\ updated # before
          THEN {[proxy |-> [r[1] EXCEPT !.available_models = order], save |-> TRUE] :
                  order \in list_of_set(updated)}
          ELSE {[proxy |-> r[1], save |-> FALSE]}

\* _model_test_worker, one active proxy of its loop: _test_proxy_models, after which
\* the thread (when the scenario follows it) sleeps until the next pass; last_op keeps
\* the proxy before and after the pass, the number of test requests and whether the
\* pass saved the configuration
ModelTestWorker ==
  /\ ~InFlight
  /\ env.passes < env.max_passes
  /\ threads # NoThreads => threads.worker = "testing"
  /\ \E i \in 1..Len(proxies) :
       /\ proxies[i].is_active
       /\ \E test_models \in test_models_of(proxies[i].models),
             failure \in HttpErrorOutcomes \cup RaiseOutcomes :
            /\ failure \in HttpErrorOutcomes => failure.status \in env.statuses
            /\ failure \in RaiseOutcomes => failure.exc \in env.raises
            /\ \E r \in _test_proxy_models(proxies[i], test_models, env.working, failure, now) :
                 LET ps2 == [proxies EXCEPT ![i] = r.proxy]
                 IN /\ proxies' = ps2
                    /\ config_file' = IF r.save THEN save_proxy_config(config_file, ps2)[2]
                                      ELSE config_file
                    /\ last_op' = [op |-> "model_test", proxy |-> i, before |-> proxies[i],
                                   after |-> r.proxy, saved |-> r.save,
                                   requests |-> Len(test_models)]
  /\ env' = [env EXCEPT !.passes = @ + 1]
  /\ threads' = IF threads = NoThreads THEN threads
                ELSE [threads EXCEPT !.worker = "interval_sleep"]
  /\ last_select' = NoSelect
  /\ call' = NoCall
  /\ UNCHANGED <<now, roundtrip, search>>

\* Model-test scenario: one proxy that declares six models; the upstream serves one or
\* two of them, or none, and answers a test of any other model with 500 or lets it
\* time out; the worker makes its passes, the admin switches the proxy on or off
InitModelTest ==
  /\ now = StartTime
  /\ config_file = [kind |-> "json", json |-> [third_party_apis |->
        <<Entry("A", <<"k1", "k2">>, <<"m1", "m2", "m3", "m4", "m5", "m6">>, <<"m2">>, TRUE, 1)>>]]
  /\ proxies = fresh_pool(config_file, now)
  /\ call = NoCall
  /\ last_select = NoSelect
  /\ roundtrip = NoRoundtrip
  /\ search = NoSearch
  /\ threads = NoThreads
  /\ last_op = NoOp
  /\ \E working \in {{}, {"m1"}, {"m1", "m3"}} :
       env = Scenario({"A"}, {500}, {"Timeout"}, {NoModel}, 0, 0, {}, 0, 1, 1)
             @@ [passes |-> 0, max_passes |-> MaxModelTestPasses, working |-> working]

NextModelTest ==
  \/ ModelTestWorker
  \/ UpdateApiProxyStatus

SpecModelTest == InitModelTest /\ [][NextModelTest]_vars

\* ------------------------------------------------------------------------
\* C25: a pass of _test_proxy_models tests at most model_test_max_count of the proxy's
\* declared models and only merges successes into available_models: every model that
\* was in available_models before the pass is still in it, every model added is a
\* declared model the upstream serves, and the configuration is saved only by a pass
\* that changed the set.
\* ------------------------------------------------------------------------
ModelTested == last_op.op = "model_test"
AvailableBefore == {last_op.before.available_models[k] : k \in 1..Len(last_op.before.available_models)}
AvailableAfter == {last_op.after.available_models[k] : k \in 1..Len(last_op.after.available_models)}

C25_ModelTestOnlyMergesSuccesses ==
  ModelTested =>
    /\ last_op.requests <= model_test_max_count
    /\ AvailableBefore \subseteq AvailableAfter
    /\ (AvailableAfter \ AvailableBefore) \subseteq
         (env.working \cap {last_op.before.models[k] : k \in 1..Len(last_op.before.models)})
    /\ last_op.saved => AvailableAfter # AvailableBefore
    /\ last_op.saved =>
         config_file.json.third_party_apis[last_op.proxy].available_models
           = last_op.after.available_models

C25_Witness ==
  /\ ModelTested
  /\ Len(last_op.before.models) > model_test_max_count
  /\ last_op.requests = model_test_max_count
  /\ last_op.saved
  /\ AvailableBefore = {"m2"}
  /\ AvailableAfter = {"m1", "m2", "m3"}

\* ------------------------------------------------------------------------
\* C26, as stated: a pass of _test_proxy_models changes only available_models and the
\* saved configuration: it leaves the proxy's is_active, consecutive_errors,
\* error_count and current_key_index unchanged, even when every tested model fails.
\* ------------------------------------------------------------------------
C26_ModelTestLeavesHealthAlone ==
  ModelTested =>
    /\ last_op.after.is_active = last_op.before.is_active
    /\ last_op.after.consecutive_errors = last_op.before.consecutive_errors
    /\ last_op.after.error_count = last_op.before.error_count
    /\ last_op.after.current_key_index = last_op.before.current_key_index

\* ------------------------------------------------------------------------
\* C27, as stated: a proxy that an admin deactivated through
\* update_proxy_status(name, False) stays inactive until an admin operation
\* re-activates it; the auto-recovery of the health-check thread never re-activates
\* it. (Under SpecRecovery an inactive proxy whose consecutive_errors is below
\* max_consecutive_errors has been switched off by the admin: record_error disables
\* at five or more, and a failed probe only raises the count.)
\* ------------------------------------------------------------------------
ManuallyDeactivated(p) == ~p.is_active /\ p.consecutive_errors < max_consecutive_errors

C27_ManualDeactivationSticks ==
  [][\A i \in 1..Len(proxies) :
       (ManuallyDeactivated(proxies[i]) /\ proxies'[i].is_active)
       => env'.ops = env.ops + 1]_vars

\* ------------------------------------------------------------------------
\* C28, as stated: call_api never sends an upstream request through a proxy whose
\* is_active is False: it raises at entry when the proxy is inactive, and it makes no
\* further attempt once the proxy has been disabled during its retry loop.
\* ------------------------------------------------------------------------
AttemptMade ==
  /\ InFlight
  /\ call'.pc # "idle"
  /\ Len(call'.log) = Len(call.log) + 1

C28_NoAttemptOnInactiveProxy ==
  [][/\ AttemptMade => proxies[call.proxy].is_active
     /\ (call'.pc = "calling" /\ call'.retries = 0) => proxies'[call'.proxy].is_active]_vars

\* ------------------------------------------------------------------------
\* The model-test thread and POST /api/system/settings
\* ------------------------------------------------------------------------
\* threads is here the record of model_test_enabled, _stop_model_test and the thread
\* _model_test_thread: "none", or where its _model_test_worker is: in the sleep(300)
\* after its start, testing the proxies, in the sleep between two passes, or exited
MaxSettingsOps == 3
MaxSettingsPasses == 2

WorkerAlive(th) == th.worker \notin {"none", "exited"}

\* start_model_test()
start_model_test(th) ==
  IF ~th.model_test_enabled THEN th
  ELSE IF ~WorkerAlive(th)
  THEN [th EXCEPT !.stop_model_test = FALSE, !.worker = "startup_sleep"]
  ELSE th

\* stop_model_test(): joined tells whether the thread ended within the 5 s of
\* join(timeout=5)
stop_model_test(th, joined) ==
  IF WorkerAlive(th)
  THEN [th EXCEPT !.stop_model_test = TRUE, !.worker = IF joined THEN "exited" ELSE @]
  ELSE th

\* POST /api/system/settings with model_test_enabled in the body; a thread in the
\* sleep between two passes looks at the flag every second and ends in time, a thread
\* in sleep(300) or in a pass may or may not
UpdateSystemSettings ==
  /\ ~InFlight
  /\ env.ops < env.max_ops
  /\ \E enabled \in BOOLEAN, joined \in BOOLEAN :
       LET th == [threads EXCEPT !.model_test_enabled = enabled]
       IN /\ threads.worker = "interval_sleep" => joined
          /\ threads' = IF enabled THEN start_model_test(th) ELSE stop_model_test(th, joined)
  /\ env' = [env EXCEPT !.ops = @ + 1]
  /\ last_select' = NoSelect
  /\ call' = NoCall
  /\ UNCHANGED <<proxies, now, config_file, roundtrip, search, last_op>>

\* _model_test_worker between its passes: after a sleep it tests `while not
\* self._stop_model_test`; a pass over a pool without an active proxy tests nothing
ModelTestThread ==
  /\ ~InFlight
  /\ \/ /\ threads.worker \in {"startup_sleep", "interval_sleep"}
        /\ threads' = [threads EXCEPT !.worker = IF threads.stop_model_test THEN "exited"
                                                 ELSE "testing"]
     \/ /\ threads.worker = "testing"
        /\ get_active_proxies(proxies) = <<>>
        /\ threads' = [threads EXCEPT !.worker = "interval_sleep"]
  /\ UNCHANGED <<proxies, now, config_file, call, last_select, roundtrip, env, search, last_op>>

\* Settings scenario: the pool of one proxy as constructed, with its model-test
\* thread started; the admin switches model testing off and on and the proxy off
InitSettings ==
  /\ now = StartTime
  /\ config_file = save_proxy_config(CfgTiered, <<fresh_pool(CfgTiered, now)[1]>>)[2]
  /\ proxies = fresh_pool(config_file, now)
  /\ call = NoCall
  /\ last_select = NoSelect
  /\ roundtrip = NoRoundtrip
  /\ search = NoSearch
  /\ threads = start_model_test([model_test_enabled |-> TRUE, stop_model_test |-> FALSE,
                                 worker |-> "none"])
  /\ last_op = NoOp
  /\ env = Scenario({"A"}, {500}, {}, {NoModel}, 0, 0, {}, 0, MaxSettingsOps, MaxSettingsOps)
           @@ [passes |-> 0, max_passes |-> MaxSettingsPasses, working |-> {"m1"}]

NextSettings ==
  \/ UpdateSystemSettings
  \/ ModelTestThread
  \/ ModelTestWorker
  \/ UpdateApiProxyStatus

SpecSettings == InitSettings /\ [][NextSettings]_vars

\* ------------------------------------------------------------------------
\* C29, as stated: if model testing is switched off and then on again through
\* update_system_settings, a model-test worker thread exists afterwards and keeps
\* performing test passes; re-enabling never leaves the pool with
\* model_test_enabled = True and no running worker. (The thread is started with the
\* pool, so a state with model testing enabled and no live thread has been through a
\* stop and a later start.)
\* ------------------------------------------------------------------------
C29_EnabledHasRunningWorker ==
  threads.model_test_enabled => WorkerAlive(threads)

\* ------------------------------------------------------------------------
\* Two requests that rewrite config.json
\* ------------------------------------------------------------------------
\* threads is here, for each request thread, where it is in its read-modify-write of
\* config.json (idle, read: json.load done, done: written or failed), the change it
\* makes, the object it loaded, the pool list it found, the value it reported and the
\* positions of its read and its write in the order of the file accesses. The
\* open(..., 'w') and the json.dump of a writer are one step.

\* what a request does: PUT /<proxy_name>/status {is_active: false} or
\* PUT /<proxy_name>/priority (the pool is updated, then save_proxy_config), or
\* POST /alert-rules; the first request works on proxy A, the second on proxy B or on
\* the alert rules
ConfigChanges(th) ==
  LET name == IF th = "request_1" THEN "A" ELSE "B"
  IN {[kind |-> "proxy", name |-> name, field |-> "is_active", value |-> FALSE]}
     \cup {[kind |-> "proxy", name |-> name, field |-> "priority", value |-> v] : v \in {100, 101}}
     \cup IF th = "request_1" THEN {}
          ELSE {[kind |-> "rules", rules |-> [alert_enabled |-> e]] : e \in BOOLEAN}

\* the object a writer dumps as if it applied its change to the file as it is now
ConfigToWriteFresh(loaded, current, change, ps) ==
  IF change.kind = "rules"
  THEN [k \in (DOMAIN current) \cup {"api_proxy_alert_rules"} |->
          IF k = "api_proxy_alert_rules" THEN change.rules ELSE current[k]]
  ELSE save_proxy_config([kind |-> "json", json |-> current], ps)[2].json

\* the object a writer dumps: the object it loaded, with third_party_apis or
\* api_proxy_alert_rules replaced; current is the content of the file at that moment
config_to_write(loaded, current, change, ps) ==
  IF change.kind = "rules"
  THEN [k \in (DOMAIN loaded) \cup {"api_proxy_alert_rules"} |->
          IF k = "api_proxy_alert_rules" THEN change.rules ELSE loaded[k]]
  ELSE save_proxy_config([kind |-> "json", json |-> loaded], ps)[2].json

\* file accesses made so far
accesses(ths) ==
  Cardinality({th \in DOMAIN ths : ths[th].pc # "idle"})
  + Cardinality({th \in DOMAIN ths : ths[th].pc = "done" /\ ths[th].write_at > 0})

\* the request up to and including its json.load of config.json
ConfigRead ==
  \E th \in RequestThreads : \E change \in ConfigChanges(th) :
    LET ps2 == IF change.kind = "proxy"
               THEN [proxies EXCEPT ![get_proxy_by_name(proxies, change.name)] =
                       IF change.field = "is_active"
                       THEN [@ EXCEPT !.is_active = change.value, !.err_run = 0]
                       ELSE [@ EXCEPT !.priority = change.value]]
               ELSE proxies
    IN /\ threads[th].pc = "idle"
       /\ env.ops < env.max_ops
       /\ change.kind = "proxy" => get_proxy_by_name(proxies, change.name) # None
       /\ proxies' = ps2
       /\ threads' = [threads EXCEPT ![th] =
            [pc |-> IF config_file.kind = "json" THEN "read" ELSE "done",
             change |-> change, loaded |-> config_file, pool |-> ps2, result |-> FALSE,
             read_at |-> accesses(threads) + 1, write_at |-> 0]]
       /\ env' = [env EXCEPT !.ops = @ + 1]
       /\ last_select' = NoSelect
       /\ call' = NoCall
       /\ UNCHANGED <<now, config_file, roundtrip, search, last_op>>

\* the rest of the request: the file is rewritten and success is reported
ConfigWrite ==
  \E th \in RequestThreads :
    /\ threads[th].pc = "read"
    /\ config_file' = [kind |-> "json",
                       json |-> config_to_write(threads[th].loaded.json,
                                                IF config_file.kind = "json"
                                                THEN config_file.json
                                                ELSE threads[th].loaded.json,
                                                threads[th].change, threads[th].pool)]
    /\ threads' = [threads EXCEPT ![th].pc = "done", ![th].result = TRUE,
                                  ![th].write_at = accesses(threads) + 1]
    /\ UNCHANGED <<proxies, now, call, last_select, roundtrip, env, search, last_op>>

\* Configuration scenario: two admin requests at a time on the pool as loaded from one
\* of two configuration files, or with the file missing
InitConfig ==
  /\ config_file \in {CfgTiered, CfgTwin, [kind |-> "missing"]}
  /\ now = StartTime
  /\ proxies = fresh_pool(config_file, now)
  /\ call = NoCall
  /\ last_select = NoSelect
  /\ roundtrip = NoRoundtrip
  /\ search = NoSearch
  /\ threads = [th \in RequestThreads |-> [pc |-> "idle"]]
  /\ last_op = NoOp
  /\ env = Scenario({}, {}, {}, {NoModel}, 0, 0, {}, 0, Cardinality(RequestThreads),
                    Cardinality(RequestThreads))

NextConfig ==
  \/ ConfigRead
  \/ ConfigWrite

SpecConfig == InitConfig /\ [][NextConfig]_vars

\* ------------------------------------------------------------------------
\* C30: config.json is rewritten by an unlocked read-modify-write, so a lost update is
\* reachable: two writers (save_proxy_config after an admin update, and
\* set_api_proxy_alert_rules or a second save_proxy_config) can both report success
\* while the file lacks the change of one of them. Precisely: when both have reported
\* success the file holds the change of the writer that wrote last, and it holds the
\* change of the other writer exactly if the last writer saw it: for two saves, if the
\* last writer built its list after the other had updated the pool; otherwise, if the
\* last writer loaded the file after the other had written it.
\* ------------------------------------------------------------------------
HasChange(file, change) ==
  IF change.kind = "rules"
  THEN /\ "api_proxy_alert_rules" \in DOMAIN file.json
       /\ file.json.api_proxy_alert_rules = change.rules
  ELSE \E k \in 1..Len(file.json.third_party_apis) :
         /\ file.json.third_party_apis[k].name = change.name
         /\ file.json.third_party_apis[k][change.field] = change.value

BothReportedSuccess ==
  /\ DOMAIN threads = RequestThreads
  /\ \A th \in RequestThreads : threads[th].pc = "done" /\ threads[th].result

SawChange(last, other) ==
  IF last.change.kind = "proxy" /\ other.change.kind = "proxy"
  THEN last.read_at > other.read_at
  ELSE last.read_at > other.write_at

C30_LastWriterWins ==
  BothReportedSuccess =>
    \A l, e \in RequestThreads :
      threads[l].write_at > threads[e].write_at
      => /\ HasChange(config_file, threads[l].change)
         /\ HasChange(config_file, threads[e].change) <=> SawChange(threads[l], threads[e])

C30_Witness ==
  /\ BothReportedSuccess
  /\ threads["request_1"].change.kind = "proxy"
  /\ threads["request_2"].change.kind = "rules"
  /\ \E th \in RequestThreads : ~HasChange(config_file, threads[th].change)

====
